---- MODULE Spec2Model ----
(***************************************************************************)
(* EduID: the ID-card PDF renderers of app/utils/pdf_utils.py and          *)
(* app/utils/id_card_generator.py and the admin route that drives the bulk *)
(* renderer (app/routes/admin.py).                                         *)
(*                                                                         *)
(* A Python value is modelled by what the code can observe of it: a text   *)
(* field is a string, NONE (Python None) or ABSENT (the key is not in the  *)
(* dict); a full name is a sequence of one-character strings so that       *)
(* strip(), upper() and slicing are computed, not assumed; a file path is  *)
(* the state of the file behind it.                                        *)
(***************************************************************************)
EXTENDS Integers, Sequences, FiniteSets, TLC

\* ------------------------------------------------------------------ bounds
\* longest id_records list handed to generate_bulk_print_pdf
MaxRecords == 10
\* most records of one list that cannot be rendered
MaxBad == 2
\* distinct readings of datetime.utcnow()
MaxClock == 2
\* SchoolID rows in the database
NumSchoolIDs == 2

\* the ticks of the clock of the accounts and submissions
MaxTime == 2
\* the rows a table of the accounts and submissions may hold
MaxRows == 3

\* ------------------------------------------------------- program constants
rows_per_page == 4

\* ------------------------------------------------------------ Python values
NONE == "<None>"
ABSENT == "<absent>"

\* bool(v) of a text field
Truthy(v) == v \notin {ABSENT, NONE, ""}

\* dict.get(key): None when the key is missing
Get(d, key) == IF d[key] = ABSENT THEN NONE ELSE d[key]

\* dict.get(key, default)
GetDefault(d, key, default) == IF d[key] = ABSENT THEN default ELSE d[key]

\* a or b
PyOr(a, b) == IF Truthy(a) THEN a ELSE b

\* os.path.exists(path) for `path and os.path.exists(path)`
\* a path is "none" (None), "missing" (no such file), "corrupt" (a file the
\* image reader rejects) or "ok"
PathStates == {"none", "missing", "corrupt", "ok"}
PathExists(p) == p \in {"corrupt", "ok"}

\* ------------------------------------------------------------------- names
Lowercase == <<"a","b","c","d","e","f","g","h","i","j","k","l","m",
               "n","o","p","q","r","s","t","u","v","w","x","y","z">>
Uppercase == <<"A","B","C","D","E","F","G","H","I","J","K","L","M",
               "N","O","P","Q","R","S","T","U","V","W","X","Y","Z">>

\* str.upper() on one character
UpperChar(c) ==
    IF \E k \in 1..Len(Lowercase) : Lowercase[k] = c
    THEN Uppercase[CHOOSE k \in 1..Len(Lowercase) : Lowercase[k] = c]
    ELSE c

\* str.upper()
Upper(s) == [k \in 1..Len(s) |-> UpperChar(s[k])]

\* s[:n]
Prefix(s, n) == IF Len(s) <= n THEN s ELSE SubSeq(s, 1, n)

RECURSIVE LStrip(_)
LStrip(s) == IF s # <<>> /\ Head(s) = " " THEN LStrip(Tail(s)) ELSE s

RECURSIVE RStrip(_)
RStrip(s) ==
    IF s # <<>> /\ s[Len(s)] = " " THEN RStrip(SubSeq(s, 1, Len(s) - 1)) ELSE s

\* str.strip()
Strip(s) == RStrip(LStrip(s))

\* the key full_name is not in the dict
AbsentName == <<ABSENT>>
NA == <<"N", "/", "A">>

JaneName == <<"J","a","n","e"," ","W","a","n","j","i","r","u"," ",
              "M","w","a","n","g","i">>
EighteenName == <<"A","b","d","u","l","r","a","h","m","a","n"," ",
                  "O","t","i","e","n","o">>
ShortName == <<"A","l"," ","O","d">>
PaddedName == <<" ","B","o"," ">>

FullNames == {JaneName, EighteenName, ShortName, PaddedName, <<>>, AbsentName}

\* ----------------------------------------------------------------- records
TextValues == {NONE, "", "x"}

\* a student with every optional field given and no asset
FullStudent(id) ==
    [kind |-> "dict", id |-> id, full_name |-> ShortName, reg_no |-> "R",
     course |-> "x", class_level |-> "x", year |-> "x", valid_until |-> "x",
     blood_type |-> "x", allergies |-> "x",
     emergency_contact_name |-> "x", emergency_contact_phone |-> "x",
     photo |-> "none", qr |-> "none"]

\* every combination of the optional text fields, None, empty or given
FieldStudents ==
    { [FullStudent(1) EXCEPT !.course = f[1], !.class_level = f[2], !.year = f[3],
          !.valid_until = f[4], !.blood_type = f[5], !.allergies = f[6],
          !.emergency_contact_name = f[7], !.emergency_contact_phone = f[8]] :
      f \in [1..8 -> TextValues] }
    \cup { [FullStudent(1) EXCEPT !.allergies = "None"],
           [FullStudent(1) EXCEPT !.emergency_contact_name = ABSENT],
           [FullStudent(1) EXCEPT !.valid_until = ABSENT] }

\* every state of the photo and QR files
AssetStudents ==
    { [FullStudent(1) EXCEPT !.photo = p, !.qr = q] : p \in PathStates, q \in PathStates }

\* every sample name
NameStudents == { [FullStudent(1) EXCEPT !.full_name = n] : n \in FullNames }

Students == FieldStudents \cup AssetStudents \cup NameStudents

\* school_config as the callers build it (app/routes/admin.py:215-222)
SchoolConfigs ==
    { [name |-> "School ID", logo_path |-> l, address |-> a, website |-> w] :
      l \in PathStates, a \in {NONE, "addr"}, w \in {NONE, "web"} }

DefaultConfig == [name |-> "School ID", logo_path |-> "none", address |-> NONE, website |-> NONE]

\* the (student, school_config) pairs a renderer is called with: the text
\* fields and the names vary under the default branding, the asset files
\* vary with the branding
RenderInputs ==
    { <<st, DefaultConfig>> : st \in FieldStudents \cup NameStudents }
    \cup { <<st, cfg>> : st \in AssetStudents, cfg \in SchoolConfigs }

\* An element of id_records that cannot be rendered: None (student.get raises
\* AttributeError) or a dict whose full_name holds unbalanced markup
\* (Paragraph raises ValueError).
BadKinds == {"none", "badmarkup"}

\* the ids of a list of n records, in ascending or descending order
ListIds(n, asc) == [k \in 1..n |-> IF asc THEN k ELSE n + 1 - k]

\* the kind of the record at position k of a list whose records at the
\* positions bad cannot be rendered: the bad records are alternately of the
\* kind first and of the other kind
KindAt(k, bad, first) ==
    IF k \notin bad THEN "dict"
    ELSE IF Cardinality({b \in bad : b <= k}) % 2 = 1 THEN first
    ELSE CHOOSE other \in BadKinds : other # first

\* the lists of n records of which at most MaxBad cannot be rendered
RecordLists(n) ==
    { [k \in 1..n |-> [FullStudent(ListIds(n, asc)[k]) EXCEPT !.kind = KindAt(k, bad, first)]] :
      asc \in BOOLEAN,
      bad \in { S \in SUBSET (1..n) : Cardinality(S) <= MaxBad },
      first \in BadKinds }

\* the lists generate_bulk_print_pdf is called with, under the default branding
ListInputs ==
    { <<recs, DefaultConfig>> : recs \in UNION { RecordLists(n) : n \in 0..MaxRecords } }

\* the (id_records, school_config) pairs generate_bulk_print_pdf is called with
BulkInputs == ListInputs \cup { << <<inp[1]>>, inp[2] >> : inp \in RenderInputs }

\* ------------------------------------------------------------------- state
VARIABLES
    fn,             \* the function in progress, "idle" when none is
    pc,             \* the position reached in it
    id_records,     \* generate_bulk_print_pdf: the list it was given
    school_config,  \* the school_config argument
    idx,            \* generate_bulk_print_pdf: index of the card-building loop
    cards,          \* generate_bulk_print_pdf: the record tables built so far
    i,              \* generate_bulk_print_pdf: index of the tiling loop
    row_count,      \* generate_bulk_print_pdf: rows since the last page break
    story,          \* the flowables handed to doc.build, in order
    student_data,   \* generate_id_pdf, generate_pvc_id_pdf: the student dict
    filename,       \* generate_id_pdf, generate_pvc_id_pdf: "none" or a path
    now,            \* the reading of datetime.utcnow() during the call
    pages,          \* generate_pvc_id_pdf: the canvas pages, each a list of draws
    built,          \* doc.build / canvas.save: "-" not reached, "ok", "failed"
    disk,           \* the file at filename: "absent" or "complete"
    canvas_ops,     \* generate_pvc_id_pdf: showPage, save and seek, as called
    result,         \* what the function returned
    status,         \* the database: SchoolID.status of every SchoolID row
    has_student,    \* the database: the SchoolIDs whose Student row exists
    pdf_file,       \* the database: SchoolID.pdf_file and the file behind it
    route,          \* the request handler in progress, "none" when none is
    school_ids,     \* generate_print_pdf: the SchoolID rows the query returned
    response,       \* what the handler answered
    request,        \* the request being served: endpoint, current_user, id_id
    calls,          \* concurrent renders: the locals of each call in progress
    files,          \* concurrent renders: the document in the file at each path
    utcnow,         \* the clock of the accounts and submissions, in ticks
    users,          \* the database: the User rows
    students,       \* the database: the Student rows of registered users
    invitations,    \* the database: the AdminInvitation rows
    submissions,    \* the database: the SchoolID rows submit_id created
    reqs,           \* the account and submission requests in progress, per thread
    script,         \* delete_schoolids.backup_and_delete: its position and locals
    uploads         \* the files under uploads/ that SchoolID rows refer to

bulk_vars == <<id_records, idx, cards, i, row_count>>
card_vars == <<student_data, filename, now, pages, disk, canvas_ops>>
db_vars == <<status, has_student, pdf_file>>
web_vars == <<route, school_ids, response, request>>
par_vars == <<calls, files>>
acct_vars == <<utcnow, users, students, invitations, submissions, reqs, script, uploads>>
render_vars == <<fn, pc, school_config, bulk_vars, story, card_vars, built, result>>
vars == <<render_vars, db_vars, web_vars, par_vars, acct_vars>>

\* ---------------------------------------------------------------- flowables
NoCard == [sid |-> 0, name |-> <<>>, lines |-> <<>>, photo |-> "-", qr |-> FALSE]

Flowable(kind, face, rows, left, right) ==
    [kind |-> kind, face |-> face, rows |-> rows, left |-> left, right |-> right]

\* Spacer(width, height), the height in hundredths of an inch
SpacerOf(h) == Flowable("Spacer", "-", <<h>>, NoCard, NoCard)
Spacer == SpacerOf(15)
PageBreak == Flowable("PageBreak", "-", <<>>, NoCard, NoCard)
BulkTitle(cfg) ==
    Flowable("Paragraph", "-", <<<<"Bulk Print - ", GetDefault(cfg, "name", "School ID")>>>>,
             NoCard, NoCard)

\* what a function returned: nothing yet, None, a BytesIO (with its read
\* position) or the file name; "raised" when an exception left the function
NoResult == [kind |-> "pending", story |-> <<>>, pos |-> 0]
ReturnedNone == [kind |-> "None", story |-> <<>>, pos |-> 0]
Raised == [kind |-> "raised", story |-> <<>>, pos |-> 0]
Buffer(s) == [kind |-> "BytesIO", story |-> s, pos |-> 0]
SavedFile(s) == [kind |-> "filename", story |-> s, pos |-> 0]

\* --------------------------------------------- generate_bulk_print_pdf
\* the body of the per-student try block raises
BulkCardRaises(student) == student.kind # "dict"

\* left_cell
BulkPhotoCell(photo_path) ==
    IF photo_path # "none" /\ PathExists(photo_path)
    THEN IF photo_path = "corrupt" THEN "[Photo]" ELSE "Image"
    ELSE "[Photo]"

\* the emergency line of a record card
BulkEmergParts(student) ==
    (IF Truthy(Get(student, "blood_type"))
       THEN <<<<"Blood: ", Get(student, "blood_type")>>>> ELSE <<>>)
    \o (IF Truthy(Get(student, "allergies")) /\ Get(student, "allergies") # "None"
       THEN <<<<"Allergies: ", Get(student, "allergies")>>>> ELSE <<>>)
    \o (IF Truthy(Get(student, "emergency_contact_name"))
       THEN <<<<"Contact: ", Get(student, "emergency_contact_name"),
                IF Truthy(Get(student, "emergency_contact_phone"))
                THEN Get(student, "emergency_contact_phone") ELSE "">>>>
       ELSE <<>>)

\* right_cells, without the name and the QR image
BulkRightCells(student, cfg) ==
    (IF Truthy(Get(cfg, "name")) THEN <<<<"school", Get(cfg, "name")>>>> ELSE <<>>)
    \o <<<<"reg", GetDefault(student, "reg_no", "N/A")>>>>
    \o (IF Truthy(PyOr(Get(student, "course"), PyOr(Get(student, "class_level"), "")))
        THEN <<<<"course", PyOr(Get(student, "course"), PyOr(Get(student, "class_level"), ""))>>>>
        ELSE <<>>)
    \o (IF Truthy(Get(student, "year")) THEN <<<<"Year: ", Get(student, "year")>>>> ELSE <<>>)
    \o (IF Truthy(Get(student, "valid_until"))
        THEN <<<<"Valid Until: ", Get(student, "valid_until")>>>> ELSE <<>>)
    \o (IF Truthy(Get(student, "blood_type")) \/ Truthy(Get(student, "allergies"))
           \/ Truthy(Get(student, "emergency_contact_name"))
        THEN <<<<"emerg", BulkEmergParts(student)>>>> ELSE <<>>)
    \o <<<<"Access: ", "Scan at entry points">>>>
    \o (IF Truthy(PyOr(Get(cfg, "address"), "")) \/ Truthy(PyOr(Get(cfg, "website"), ""))
        THEN <<<<"addr", PyOr(Get(cfg, "address"), ""), PyOr(Get(cfg, "website"), "")>>>>
        ELSE <<>>)

\* record_table: the card of one student
BulkCard(student, cfg) ==
    [sid |-> student.id,
     name |-> IF student.full_name = AbsentName THEN NA ELSE student.full_name,
     lines |-> BulkRightCells(student, cfg),
     photo |-> BulkPhotoCell(student.photo),
     qr |-> student.qr = "ok"]

\* faulty variant of PairRow: a single last card is put into the right cell
PairRow_SingleRight(cs, k) ==
    IF k + 1 <= Len(cs)
    THEN Flowable("Pair", "-", <<>>, cs[k], cs[k + 1])
    ELSE Flowable("Pair", "-", <<>>, NoCard, cs[k])

\* faulty variant of PairRow: the two cells of a full row are swapped
PairRow_Swapped(cs, k) ==
    IF k + 1 <= Len(cs)
    THEN Flowable("Pair", "-", <<>>, cs[k + 1], cs[k])
    ELSE Flowable("Pair", "-", <<>>, cs[k], NoCard)

\* pair: one row of two cards, the right cell a Spacer when no card is left
PairRow(cs, k) ==
    Flowable("Pair", "-", <<>>, cs[k], IF k + 1 <= Len(cs) THEN cs[k + 1] ELSE NoCard)

\* generate_bulk_print_pdf(id_records, ..., school_config) is entered: the
\* title and its spacer open the story
CallBulkOn(inputs) ==
    /\ fn = "idle" /\ route = "none"
    /\ \E inp \in inputs :
         /\ id_records' = inp[1]
         /\ school_config' = inp[2]
    /\ fn' = "generate_bulk_print_pdf"
    /\ pc' = "build_cards"
    /\ story' = <<BulkTitle(school_config'), Spacer>>
    /\ cards' = <<>>
    /\ idx' = 1
    /\ UNCHANGED <<i, row_count, card_vars, built, result, db_vars, par_vars, acct_vars, web_vars>>

\* the calls on every input
CallBulk == CallBulkOn(BulkInputs)

\* the calls on a list of records
CallBulkList == CallBulkOn(ListInputs)

\* faulty variant of BuildCard: no per-student try, so the exception of a bad record
\* reaches the outer except and the function returns None
BuildCard_NoTry ==
    /\ fn = "generate_bulk_print_pdf" /\ pc = "build_cards"
    /\ idx <= Len(id_records)
    /\ IF BulkCardRaises(id_records[idx])
       THEN /\ pc' = "done"
            /\ result' = ReturnedNone
            /\ UNCHANGED <<cards, idx>>
       ELSE /\ cards' = Append(cards, BulkCard(id_records[idx], school_config))
            /\ idx' = idx + 1
            /\ UNCHANGED <<pc, result>>
    /\ UNCHANGED <<fn, id_records, school_config, i, row_count, story, card_vars, built,
                   db_vars, par_vars, acct_vars, web_vars>>

\* one iteration of `for idx, student in enumerate(id_records)`
BuildCard ==
    /\ fn = "generate_bulk_print_pdf" /\ pc = "build_cards"
    /\ idx <= Len(id_records)
    /\ cards' = IF BulkCardRaises(id_records[idx])
                THEN cards
                ELSE Append(cards, BulkCard(id_records[idx], school_config))
    /\ idx' = idx + 1
    /\ UNCHANGED <<fn, pc, id_records, school_config, i, row_count, story, card_vars, built, result, db_vars, par_vars, acct_vars, web_vars>>

\* the loop is exhausted: row_count = 0 and the tiling loop starts
EndBuildCards ==
    /\ fn = "generate_bulk_print_pdf" /\ pc = "build_cards"
    /\ idx > Len(id_records)
    /\ pc' = "tile"
    /\ i' = 1
    /\ row_count' = 0
    /\ UNCHANGED <<fn, id_records, school_config, idx, cards, story, card_vars, built, result, db_vars, par_vars, acct_vars, web_vars>>

\* faulty variant of PlacePair: the loop bound is one short, so a last single card
\* is never placed
PlacePair_OneShort ==
    /\ fn = "generate_bulk_print_pdf" /\ pc = "tile"
    /\ i < Len(cards)
    /\ story' = story \o <<PairRow(cards, i), Spacer>>
    /\ row_count' = row_count + 1
    /\ pc' = "check_break"
    /\ UNCHANGED <<fn, id_records, school_config, idx, cards, i, card_vars, built, result,
                   db_vars, par_vars, acct_vars, web_vars>>

\* `for i in range(0, len(cards), 2)`: the row is appended and counted
PlacePair ==
    /\ fn = "generate_bulk_print_pdf" /\ pc = "tile"
    /\ i <= Len(cards)
    /\ story' = story \o <<PairRow(cards, i), Spacer>>
    /\ row_count' = row_count + 1
    /\ pc' = "check_break"
    /\ UNCHANGED <<fn, id_records, school_config, idx, cards, i, card_vars, built, result, db_vars, par_vars, acct_vars, web_vars>>

\* faulty variant of CheckBreak: `>` for `>=`, the page break comes one row late
CheckBreak_BreakLate ==
    /\ fn = "generate_bulk_print_pdf" /\ pc = "check_break"
    /\ IF row_count > rows_per_page
       THEN story' = Append(story, PageBreak) /\ row_count' = 0
       ELSE UNCHANGED <<story, row_count>>
    /\ i' = i + 2
    /\ pc' = "tile"
    /\ UNCHANGED <<fn, id_records, school_config, idx, cards, card_vars, built, result,
                   db_vars, par_vars, acct_vars, web_vars>>

\* faulty variant of CheckBreak: the page break is emitted but the counter is not reset
CheckBreak_NoReset ==
    /\ fn = "generate_bulk_print_pdf" /\ pc = "check_break"
    /\ IF row_count >= rows_per_page
       THEN story' = Append(story, PageBreak)
       ELSE UNCHANGED story
    /\ UNCHANGED row_count
    /\ i' = i + 2
    /\ pc' = "tile"
    /\ UNCHANGED <<fn, id_records, school_config, idx, cards, card_vars, built, result,
                   db_vars, par_vars, acct_vars, web_vars>>

\* `if row_count >= rows_per_page`, then the next i
CheckBreak ==
    /\ fn = "generate_bulk_print_pdf" /\ pc = "check_break"
    /\ IF row_count >= rows_per_page
       THEN story' = Append(story, PageBreak) /\ row_count' = 0
       ELSE UNCHANGED <<story, row_count>>
    /\ i' = i + 2
    /\ pc' = "tile"
    /\ UNCHANGED <<fn, id_records, school_config, idx, cards, card_vars, built, result, db_vars, par_vars, acct_vars, web_vars>>

EndTile ==
    /\ fn = "generate_bulk_print_pdf" /\ pc = "tile"
    /\ i > Len(cards)
    /\ pc' = "doc_build"
    /\ UNCHANGED <<fn, id_records, school_config, idx, cards, i, row_count, story, card_vars, built, result, db_vars, par_vars, acct_vars, web_vars>>

\* faulty variant of BulkDocBuild: the build error is swallowed and the buffer, as far
\* as it was written, is returned
BulkDocBuild_SwallowsError ==
    /\ fn = "generate_bulk_print_pdf" /\ pc = "doc_build"
    /\ \E build_ok \in BOOLEAN :
         /\ built' = IF build_ok THEN "ok" ELSE "failed"
         /\ result' = Buffer(story)
    /\ pc' = "done"
    /\ UNCHANGED <<fn, school_config, bulk_vars, story, card_vars, db_vars, par_vars, acct_vars, web_vars>>

\* doc.build(story): the buffer is returned, or build raises, the outer
\* except catches it and the function returns None
BulkDocBuild ==
    /\ fn = "generate_bulk_print_pdf" /\ pc = "doc_build"
    /\ \E build_ok \in BOOLEAN :
         /\ built' = IF build_ok THEN "ok" ELSE "failed"
         /\ result' = IF build_ok THEN Buffer(story) ELSE ReturnedNone
    /\ pc' = "done"
    /\ UNCHANGED <<fn, school_config, bulk_vars, story, card_vars, db_vars, par_vars, acct_vars, web_vars>>

\* ------------------------------------------------------- generate_id_pdf
\* strftime('%b %Y') and strftime('%m/%d/%Y') of utcnow() + 365 days
StrfMonthYear(t) == <<"Nov 2027", "Dec 2027", "Jan 2028", "Feb 2028">>[t]
StrfDate(t) == <<"11/30/2027", "12/01/2027", "01/01/2028", "02/01/2028">>[t]

\* the header row of the front table: the logo beside the name when the logo
\* file exists and loads
IdHeaderRow(cfg) ==
    IF cfg.logo_path # "none" /\ PathExists(cfg.logo_path)
    THEN IF cfg.logo_path = "corrupt"
         THEN <<"header", GetDefault(cfg, "name", "SCHOOL")>>
         ELSE <<"header", "logo", GetDefault(cfg, "name", "SCHOOL")>>
    ELSE <<"header", GetDefault(cfg, "name", "SCHOOL")>>

\* photo
IdPhoto(photo_path) ==
    IF photo_path # "none" /\ PathExists(photo_path)
    THEN IF photo_path = "corrupt" THEN "[Photo]" ELSE "Image"
    ELSE "[Photo]"

\* the name paragraph of the front face
IdNameDrawn(sd) == IF sd.full_name = AbsentName THEN NA ELSE sd.full_name

\* course (the keys program and year_of_study are in no dict the callers build)
IdCourse(sd) == PyOr(Get(sd, "course"), PyOr(Get(sd, "class_level"), ""))

\* validity_text of the front face
IdValidityText(sd, t) ==
    IF Truthy(Get(sd, "valid_until")) THEN Get(sd, "valid_until") ELSE StrfMonthYear(t)

\* faulty variant of IdDetails: the validity line is left out at every
\* second reading of the clock
IdDetails_ByClock(sd, id_number, t) ==
    <<<<"name", IdNameDrawn(sd)>>, <<"ID: ", id_number>>>>
    \o (IF Truthy(IdCourse(sd)) THEN <<<<"course", IdCourse(sd)>>>> ELSE <<>>)
    \o (IF Truthy(Get(sd, "year")) THEN <<<<"Year: ", Get(sd, "year")>>>> ELSE <<>>)
    \o (IF t % 2 = 1 THEN <<<<"Valid Until: ", IdValidityText(sd, t)>>>> ELSE <<>>)

\* details: the right column of the front face
IdDetails(sd, id_number, t) ==
    <<<<"name", IdNameDrawn(sd)>>, <<"ID: ", id_number>>>>
    \o (IF Truthy(IdCourse(sd)) THEN <<<<"course", IdCourse(sd)>>>> ELSE <<>>)
    \o (IF Truthy(Get(sd, "year")) THEN <<<<"Year: ", Get(sd, "year")>>>> ELSE <<>>)
    \o <<<<"Valid Until: ", IdValidityText(sd, t)>>>>

\* front_table
IdFrontTable(sd, id_number, cfg, t) ==
    Flowable("Table", "front",
             <<IdHeaderRow(cfg), <<"Spacer">>,
               <<"front_main", IdPhoto(sd.photo), IdDetails(sd, id_number, t)>>>>,
             NoCard, NoCard)

\* blood_text
IdBloodText(sd) ==
    (IF Truthy(Get(sd, "blood_type")) THEN <<"Blood:", Get(sd, "blood_type")>> ELSE <<>>)
    \o (IF Truthy(Get(sd, "allergies")) THEN <<"Allergies:", Get(sd, "allergies")>> ELSE <<>>)

\* `contact += ...` on the None that get('emergency_contact_name', '') returns
\* for a key that is present and None: TypeError
IdContactRaises(sd) ==
    /\ Truthy(Get(sd, "emergency_contact_name")) \/ Truthy(Get(sd, "emergency_contact_phone"))
    /\ GetDefault(sd, "emergency_contact_name", "") = NONE
    /\ Truthy(Get(sd, "emergency_contact_phone"))

\* back_right_parts
IdBackRight(sd, cfg) ==
    (IF Truthy(Get(sd, "emergency_contact_name")) \/ Truthy(Get(sd, "emergency_contact_phone"))
     THEN <<<<"Emergency:", GetDefault(sd, "emergency_contact_name", ""),
              IF Truthy(Get(sd, "emergency_contact_phone"))
              THEN Get(sd, "emergency_contact_phone") ELSE "">>>>
     ELSE <<>>)
    \o <<<<"Access Instructions:", "Scan at entry points">>>>
    \o (IF Truthy(Get(cfg, "address")) \/ Truthy(Get(cfg, "website"))
        THEN <<<<"addr", PyOr(Get(cfg, "address"), ""), PyOr(Get(cfg, "website"), "")>>>>
        ELSE <<>>)

\* left_back
IdQr(qr_code_path) ==
    IF qr_code_path # "none" /\ PathExists(qr_code_path)
    THEN IF qr_code_path = "corrupt" THEN "QR" ELSE "Image"
    ELSE "QR"

\* back_table
IdBackTable(sd, cfg, t) ==
    Flowable("Table", "back",
             <<<<"header", GetDefault(cfg, "name", "SCHOOL")>>, <<"Spacer">>,
               <<"motto">>, <<"Spacer">>, <<"EMERGENCY INFO">>>>
             \o (IF IdBloodText(sd) # <<>> THEN <<<<"blood", IdBloodText(sd)>>>> ELSE <<>>)
             \o (IF Truthy(Get(sd, "emergency_contact_name"))
                 THEN <<<<"Contact:", Get(sd, "emergency_contact_name"),
                          IF Truthy(Get(sd, "emergency_contact_phone"))
                          THEN Get(sd, "emergency_contact_phone") ELSE "">>>>
                 ELSE <<>>)
             \o <<<<"Spacer">>, <<"Valid Until:", StrfDate(t)>>,
                  <<"back_main", IdQr(sd.qr), IdBackRight(sd, cfg)>>>>,
             NoCard, NoCard)

\* Table([[t]], colWidths=[id_width]): the table t centred in a one-cell table
Centered(t) == Flowable("Centered", t.face, t.rows, NoCard, NoCard)

\* the story generate_id_pdf hands to doc.build: front_table is appended
\* right after it is made (line 186) and again inside front_centered
IdStory(sd, id_number, cfg, t) ==
    <<IdFrontTable(sd, id_number, cfg, t), SpacerOf(0),
      SpacerOf(30), Centered(IdFrontTable(sd, id_number, cfg, t)),
      SpacerOf(30), Centered(IdBackTable(sd, cfg, t))>>

\* generate_id_pdf(student_data, id_number, qr_code_path, photo_path,
\* filename, school_config): the whole call.  An exception anywhere in the
\* body is caught by the outer except and None is returned.
GenerateIdPdfOn(inputs) ==
    /\ fn = "idle" /\ route = "none"
    /\ \E inp \in inputs, f \in {"none", "path"}, t \in 1..MaxClock, build_ok \in BOOLEAN :
         /\ student_data' = inp[1]
         /\ school_config' = inp[2]
         /\ filename' = f
         /\ now' = t
         /\ IF IdContactRaises(inp[1])
            THEN /\ story' = <<>>
                 /\ built' = "-"
                 /\ result' = ReturnedNone
                 /\ disk' = "absent"
            ELSE /\ story' = IdStory(inp[1], "ID1", inp[2], t)
                 /\ built' = IF build_ok THEN "ok" ELSE "failed"
                 /\ result' = IF ~build_ok THEN ReturnedNone
                              ELSE IF f # "none" THEN SavedFile(story') ELSE Buffer(story')
                 /\ disk' = IF build_ok /\ f # "none" THEN "complete" ELSE "absent"
    /\ fn' = "generate_id_pdf"
    /\ pc' = "done"
    /\ UNCHANGED <<bulk_vars, pages, canvas_ops, db_vars, par_vars, acct_vars, web_vars>>

\* --------------------------------------------------- generate_pvc_id_pdf
\* draw_card_background()
PvcBackground == <<<<"rect", "white">>, <<"roundRect", "card">>>>

\* the logo, or the school name when there is no logo file
PvcLogo(cfg) ==
    IF cfg.logo_path # "none" /\ PathExists(cfg.logo_path)
    THEN IF cfg.logo_path = "corrupt" THEN <<>> ELSE <<<<"drawImage", "logo">>>>
    ELSE <<<<"drawCentredString", Get(cfg, "name")>>>>

\* the photo with its frame, or the grey placeholder box
PvcPhoto(photo_path) ==
    IF photo_path # "none" /\ PathExists(photo_path)
    THEN IF photo_path = "corrupt"
         THEN <<<<"rect", "lightgrey">>>>
         ELSE <<<<"drawImage", "photo">>, <<"roundRect", "frame">>>>
    ELSE <<<<"rect", "lightgrey">>, <<"drawCentredString", "Photo">>>>

\* student.get('full_name', '').strip()
PvcNameDrawn(st) == Strip(IF st.full_name = AbsentName THEN <<>> ELSE st.full_name)

\* the text block right of the photo and the bottom of the front
\* (the dicts the callers build hold no id_number and no address)
PvcFrontText(st, cfg) ==
    <<<<"drawString", "name", PvcNameDrawn(st)>>,
      <<"drawString", "ID: ", PyOr(NONE, GetDefault(st, "reg_no", ""))>>>>
    \o (IF Truthy(Get(st, "course")) THEN <<<<"drawString", "course", Get(st, "course")>>>> ELSE <<>>)
    \o (IF Truthy(Get(st, "year")) THEN <<<<"drawString", "Year: ", Get(st, "year")>>>> ELSE <<>>)
    \o <<<<"drawRightString", "Valid Until: ", GetDefault(st, "valid_until", "")>>,
         <<"line", "divider">>>>
    \o (IF Truthy(Get(cfg, "website"))
        THEN <<<<"drawCentredString", Get(cfg, "website")>>>> ELSE <<>>)

\* the QR code of qr_data, or the grey box when there is none or it fails
PvcQr(qr_data) ==
    IF qr_data \in {"ok", "corrupt"}
    THEN IF qr_data = "corrupt" THEN <<<<"rect", "lightgrey">>>> ELSE <<<<"renderPDF.draw", "qr">>>>
    ELSE <<<<"rect", "lightgrey">>>>

\* the right side and the bottom of the back
PvcBackText(st, cfg) ==
    <<<<"drawString", "Emergency Contact:">>,
      <<"drawString", "contact", PyOr(GetDefault(st, "emergency_contact_name", ""), "")>>,
      <<"drawString", "phone", PyOr(GetDefault(st, "emergency_contact_phone", ""), "")>>,
      <<"drawString", "Address:">>,
      <<"drawText", PyOr(Get(cfg, "address"), "")>>,
      <<"drawString", "Property of the school">>,
      <<"rect", "signature">>,
      <<"drawCentredString", "Signature">>>>

\* faulty variant of PvcPages: the QR code is drawn after the text of the back
PvcPages_QrLast(st, cfg) ==
    <<PvcBackground \o PvcLogo(cfg) \o PvcPhoto(st.photo) \o PvcFrontText(st, cfg),
      PvcBackground \o PvcBackText(st, cfg) \o PvcQr(st.qr)>>

\* the two pages, each closed by showPage()
PvcPages(st, cfg) ==
    <<PvcBackground \o PvcLogo(cfg) \o PvcPhoto(st.photo) \o PvcFrontText(st, cfg),
      PvcBackground \o PvcQr(st.qr) \o PvcBackText(st, cfg)>>

\* os.makedirs(os.path.dirname(filename), exist_ok=True) raises
\* FileNotFoundError when the filename has no directory part ("bare"): the
\* dirname is ''
MakedirsRaises(f) == f = "bare"

\* the calls that end a page or the document, in the order they are made:
\* showPage() after each face, then, unless makedirs raised, one save(),
\* seek(0) and, for a file, write and close
PvcCanvasOps(f) ==
    <<"showPage", "showPage">>
    \o (IF MakedirsRaises(f) THEN <<>> ELSE <<"save", "seek(0)">>)
    \o (IF f \notin {"none", "bare"} THEN <<"write", "close">> ELSE <<>>)

\* generate_pvc_id_pdf(student, school_config, photo_path, qr_data, filename):
\* the whole call; nothing in it catches an exception of the text draws or
\* of makedirs
GeneratePvcIdPdf ==
    /\ fn = "idle" /\ route = "none"
    /\ \E inp \in RenderInputs, f \in {"none", "path", "bare"} :
         /\ student_data' = inp[1]
         /\ school_config' = inp[2]
         /\ filename' = f
         /\ pages' = PvcPages(inp[1], inp[2])
         /\ canvas_ops' = PvcCanvasOps(f)
         /\ built' = IF MakedirsRaises(f) THEN "-" ELSE "ok"
         /\ result' = IF MakedirsRaises(f) THEN Raised
                      ELSE IF f # "none" THEN SavedFile(<<>>) ELSE Buffer(<<>>)
         /\ disk' = IF f = "path" THEN "complete" ELSE "absent"
    /\ fn' = "generate_pvc_id_pdf"
    /\ pc' = "done"
    /\ UNCHANGED <<bulk_vars, story, now, db_vars, par_vars, acct_vars, web_vars>>

GenerateIdPdf == GenerateIdPdfOn(RenderInputs)

\* generate_id_pdf called on three students, one per branch of the emergency block
GenerateIdPdfSample ==
    GenerateIdPdfOn({ <<st, DefaultConfig>> :
        st \in { FullStudent(1),
                 [FullStudent(1) EXCEPT !.emergency_contact_name = NONE],
                 [FullStudent(1) EXCEPT !.emergency_contact_name = NONE,
                                        !.emergency_contact_phone = NONE] } })

\* ------------------------------------------------- users and decorators
Statuses == {"pending", "approved", "rejected", "printed"}
SchoolIDs == 1..NumSchoolIDs

\* current_user: nobody logged in, the student whose User row has the id k,
\* or an administrator
Anonymous == [is_authenticated |-> FALSE, role |-> "-", id |-> 0]
StudentUser(k) == [is_authenticated |-> TRUE, role |-> "student", id |-> k]
AdminUser == [is_authenticated |-> TRUE, role |-> "admin", id |-> 0]
Users == {Anonymous, AdminUser} \cup { StudentUser(k) : k \in SchoolIDs }

\* SchoolID k is the submission of Student k, whose user_id is k
OwnerId(id_id) == id_id

Answer(code, body) == [code |-> code, body |-> body]
NoResponse == Answer(0, "-")
SentPdf == Answer(200, "application/pdf")
Redirect(endpoint) == Answer(302, endpoint)
NotFound == Answer(404, "Not Found")
Forbidden == Answer(403, "Forbidden")

NoRequest == [endpoint |-> "-", user |-> Anonymous, id_id |-> 0]
Request(endpoint, user, id_id) == [endpoint |-> endpoint, user |-> user, id_id |-> id_id]

\* the ids a URL or a request body can name: the rows and the id of no row
RequestIds == 1..(NumSchoolIDs + 1)

\* faulty variant of RoleRefusal: the role of the user is not looked at
RoleRefusal_AnyRole(user, role) ==
    IF ~user.is_authenticated THEN Redirect("auth.login")
    ELSE NoResponse

\* login_required, then admin_required or student_required: the answer the
\* decorators give in place of the body, NoResponse when they let the body run
RoleRefusal(user, role) ==
    IF ~user.is_authenticated THEN Redirect("auth.login")
    ELSE IF user.role # role THEN Forbidden
    ELSE NoResponse

\* a handler answers and touches nothing but the response
Respond(answer) ==
    /\ response' = answer
    /\ route' = "responded"
    /\ UNCHANGED <<render_vars, db_vars, par_vars, acct_vars, school_ids>>

\* a handler that loads SchoolID id_id, sets its status and commits
SetStatus(endpoint, new_status, message) ==
    /\ route = "none" /\ fn = "idle"
    /\ \E user \in Users, id_id \in RequestIds :
         /\ request' = Request(endpoint, user, id_id)
         /\ IF RoleRefusal(user, "admin") # NoResponse
            THEN Respond(RoleRefusal(user, "admin"))
            ELSE IF id_id \notin SchoolIDs
            THEN Respond(NotFound)
            ELSE /\ status' = [status EXCEPT ![id_id] = new_status]
                 /\ response' = Answer(200, message)
                 /\ route' = "responded"
                 /\ UNCHANGED <<render_vars, has_student, pdf_file, par_vars, acct_vars, school_ids>>

\* admin.approve_submission
ApproveSubmission == SetStatus("approve_submission", "approved", "ID approved successfully")

\* admin.reject_submission
RejectSubmission == SetStatus("reject_submission", "rejected", "ID rejected successfully")

\* admin.mark_printed
MarkPrintedSubmission == SetStatus("mark_printed", "printed", "ID marked as printed")

\* admin.review_submission: the form is shown (GET, or a POST that does not
\* validate) or the status the form names is stored
ReviewSubmission ==
    /\ route = "none" /\ fn = "idle"
    /\ \E user \in Users, id_id \in RequestIds,
          form \in {"GET", "approved", "rejected"} :
         /\ request' = Request("review_submission", user, id_id)
         /\ IF RoleRefusal(user, "admin") # NoResponse
            THEN Respond(RoleRefusal(user, "admin"))
            ELSE IF id_id \notin SchoolIDs \/ id_id \notin has_student
            THEN Respond(NotFound)
            ELSE IF form = "GET"
            THEN Respond(Answer(200, "admin/review_submission.html"))
            ELSE /\ status' = [status EXCEPT ![id_id] = form]
                 /\ response' = Redirect("admin.submissions")
                 /\ route' = "responded"
                 /\ UNCHANGED <<render_vars, has_student, pdf_file, par_vars, acct_vars, school_ids>>

\* ------------------------------------- student.download_id_pdf (the route)
\* the parameters of generate_id_pdf that have no default
IdPdfRequired == <<"student_data", "id_number", "qr_code_path">>

\* the positional arguments of the call in download_id_pdf
DownloadCallArgs == <<"[student_data]", "pdf_filename">>

\* a call with fewer positional arguments than the function requires raises
\* TypeError before the body of the function runs
BindRaises(required, args) == Len(args) < Len(required)

\* what the call generate_id_pdf([student_data], pdf_filename) gives back to
\* download_id_pdf: the TypeError of the call itself, or, were the arguments
\* bound, the None of the outer except (a list has no get)
DownloadCallResult ==
    IF BindRaises(IdPdfRequired, DownloadCallArgs) THEN "TypeError" ELSE "None"

\* f"ID_{school_id.id_number}.pdf", the id_number written as the row's id
DownloadName(id_id) == <<"ID_1.pdf", "ID_2.pdf", "ID_3.pdf", "ID_4.pdf">>[id_id]
SentFile(id_id) == Answer(200, DownloadName(id_id))

\* os.path.exists of the file SchoolID.pdf_file names; the column is "none"
\* (NULL), "missing" (a path whose file is gone) or "exists"
PdfFileStates == {"none", "missing", "exists"}

\* faulty variant of DownloadAllowed: the owner of the SchoolID is not compared
\* with the current user
DownloadAllowed_AnyOwner(user, id_id, st) ==
    st[id_id] \in {"approved", "printed"}

\* the two checks of download_id_pdf: the SchoolID is the current user's and
\* its status is approved or printed
DownloadAllowed(user, id_id, st) ==
    /\ OwnerId(id_id) = user.id
    /\ st[id_id] \in {"approved", "printed"}

\* download_id_pdf: the whole handler.  When no PDF file exists yet the call
\* of generate_id_pdf raises, the handler flashes the error and redirects;
\* pdf_file is stored only from a path the call returned.
DownloadIdPdf ==
    /\ route = "none" /\ fn = "idle"
    /\ \E user \in Users, id_id \in RequestIds :
         /\ request' = Request("download_id_pdf", user, id_id)
         /\ IF RoleRefusal(user, "student") # NoResponse
            THEN Respond(RoleRefusal(user, "student"))
            ELSE IF id_id \notin SchoolIDs \/ id_id \notin has_student
            THEN Respond(NotFound)
            ELSE IF ~DownloadAllowed(user, id_id, status)
            THEN Respond(Redirect("student.dashboard"))
            ELSE IF pdf_file[id_id] # "exists"
            THEN IF DownloadCallResult \in {"TypeError", "None"}
                 THEN Respond(Redirect("student.dashboard"))
                 ELSE /\ pdf_file' = [pdf_file EXCEPT ![id_id] = "exists"]
                      /\ response' = SentFile(id_id)
                      /\ route' = "responded"
                      /\ UNCHANGED <<render_vars, status, has_student, par_vars, acct_vars, school_ids>>
            ELSE Respond(SentFile(id_id))

\* ------------------------------------- admin.generate_print_pdf (the route)
\* the dict the route builds from a Student row and the clock
PrintRecord(sid, t) ==
    [FullStudent(sid) EXCEPT !.valid_until = StrfMonthYear(t), !.qr = "ok"]

RECURSIVE Ascending(_)
\* the elements of a set of numbers in ascending order: the rows of
\* SchoolID.query.filter(SchoolID.id.in_(selected_ids)).all()
Ascending(S) ==
    IF S = {} THEN <<>>
    ELSE LET m == CHOOSE x \in S : \A y \in S : x <= y
         IN <<m>> \o Ascending(S \ {m})

\* id_records: one dict per SchoolID row whose Student row exists
RECURSIVE PrintRecords(_, _, _)
PrintRecords(rows, present, t) ==
    IF rows = <<>> THEN <<>>
    ELSE (IF Head(rows) \in present THEN <<PrintRecord(Head(rows), t)>> ELSE <<>>)
         \o PrintRecords(Tail(rows), present, t)

\* the request is refused before any PDF is generated
PrintRefused(code, body) ==
    /\ response' = Answer(code, body)
    /\ route' = "responded"
    /\ UNCHANGED <<render_vars, db_vars, par_vars, acct_vars, school_ids>>

\* generate_print_pdf up to the call of generate_bulk_print_pdf.  The request
\* body is not JSON, does not parse, or holds the ids selected_ids (the one
\* past NumSchoolIDs is the id of no row).
PrintBegin ==
    /\ route = "none" /\ fn = "idle"
    /\ \E user \in Users,
          body \in {"not_json", "bad_ids", "ids"},
          selected_ids \in SUBSET RequestIds,
          t \in 1..MaxClock :
         LET rows == Ascending(selected_ids \cap SchoolIDs)
             recs == PrintRecords(rows, has_student, t)
         IN  /\ request' = Request("generate_print_pdf", user, 0)
             /\ IF RoleRefusal(user, "admin") # NoResponse
                THEN Respond(RoleRefusal(user, "admin"))
                ELSE IF body = "not_json" THEN PrintRefused(400, "Request must be JSON")
                ELSE IF body = "bad_ids" THEN PrintRefused(400, "Error parsing request")
                ELSE IF selected_ids = {} THEN PrintRefused(400, "No IDs selected")
                ELSE IF rows = <<>> THEN PrintRefused(400, "No valid IDs found")
                ELSE IF recs = <<>>
                     THEN /\ response' = Answer(400, "No valid students found")
                          /\ route' = "responded"
                          /\ school_ids' = rows
                          /\ UNCHANGED <<render_vars, db_vars, par_vars, acct_vars>>
                ELSE /\ route' = "generate_print_pdf"
                     /\ school_ids' = rows
                     /\ now' = t
                     /\ id_records' = recs
                     /\ school_config' = DefaultConfig
                     /\ fn' = "generate_bulk_print_pdf"
                     /\ pc' = "build_cards"
                     /\ story' = <<BulkTitle(DefaultConfig), Spacer>>
                     /\ cards' = <<>>
                     /\ idx' = 1
                     /\ UNCHANGED <<i, row_count, student_data, filename, pages, disk,
                                    canvas_ops, built, result, db_vars, par_vars, acct_vars, response>>

\* the status every selected row has after `sid.status = 'printed'` and commit
MarkPrinted(st, rows) ==
    [s \in SchoolIDs |-> IF \E k \in 1..Len(rows) : rows[k] = s THEN "printed" ELSE st[s]]

\* generate_print_pdf after generate_bulk_print_pdf returned: no buffer is an
\* error; otherwise the rows are marked printed (a failed commit is only
\* logged) and the buffer is sent (a failed send is an error)
PrintFinish ==
    /\ route = "generate_print_pdf" /\ fn = "generate_bulk_print_pdf" /\ pc = "done"
    /\ \E commit_ok \in BOOLEAN, send_ok \in BOOLEAN :
         IF result.kind # "BytesIO"
         THEN /\ response' = Answer(500, "PDF buffer is empty")
              /\ UNCHANGED status
         ELSE /\ status' = IF commit_ok THEN MarkPrinted(status, school_ids) ELSE status
              /\ response' = IF send_ok THEN SentPdf ELSE Answer(500, "Error sending PDF")
    /\ route' = "responded"
    /\ UNCHANGED <<render_vars, has_student, pdf_file, par_vars, acct_vars, school_ids, request>>

\* the request is over: the handler's locals are dropped
RouteReturn ==
    /\ route = "responded"
    /\ route' = "none" /\ school_ids' = <<>> /\ response' = NoResponse
    /\ request' = NoRequest
    /\ fn' = "idle" /\ pc' = "idle"
    /\ id_records' = <<>> /\ school_config' = DefaultConfig
    /\ idx' = 0 /\ cards' = <<>> /\ i' = 0 /\ row_count' = 0
    /\ student_data' = FullStudent(0) /\ filename' = "none" /\ now' = 0
    /\ pages' = <<>> /\ built' = "-" /\ disk' = "absent" /\ canvas_ops' = <<>>
    /\ story' = <<>> /\ result' = NoResult
    /\ UNCHANGED <<db_vars, par_vars, acct_vars>>

\* the caller drops the call's locals
Return ==
    /\ route = "none" /\ fn # "idle" /\ pc = "done"
    /\ fn' = "idle" /\ pc' = "idle"
    /\ id_records' = <<>> /\ school_config' = DefaultConfig
    /\ idx' = 0 /\ cards' = <<>> /\ i' = 0 /\ row_count' = 0
    /\ student_data' = FullStudent(0) /\ filename' = "none" /\ now' = 0
    /\ pages' = <<>> /\ built' = "-" /\ disk' = "absent" /\ canvas_ops' = <<>>
    /\ story' = <<>> /\ result' = NoResult
    /\ UNCHANGED <<db_vars, par_vars, acct_vars, web_vars>>

\* renders running side by side, one per worker thread: no call is in progress
NoArgs == [student |-> FullStudent(0), filename |-> "none", t |-> 0]
NoCall == [fn |-> "idle", pc |-> "idle", args |-> NoArgs, drawn |-> "-",
           buffer |-> <<>>, result |-> NoResult, overlapped |-> FALSE, shared |-> FALSE]
Threads == 1..2
Paths == {"a.pdf", "b.pdf"}

\* a file that holds nothing: not yet written, or just opened with 'wb'
EmptyFile == [fn |-> "-", args |-> NoArgs, story |-> <<>>]

\* no account or submission request is in progress in a thread
NoReq == [op |-> "idle", pc |-> "idle", student |-> 0, username |-> "-",
          reg_no |-> "-", token |-> 0, last |-> "-"]

\* backup_and_delete is not running
NoScript == [pc |-> "idle", schoolids |-> {}, csv |-> {}, csv_closed |-> FALSE,
             deleted |-> {}, removed |-> {}]

\* no call and no request is in progress
InitIdle ==
    /\ fn = "idle" /\ pc = "idle"
    /\ id_records = <<>> /\ school_config = DefaultConfig
    /\ idx = 0 /\ cards = <<>> /\ i = 0 /\ row_count = 0
    /\ student_data = FullStudent(0) /\ filename = "none" /\ now = 0
    /\ pages = <<>> /\ built = "-" /\ disk = "absent" /\ canvas_ops = <<>>
    /\ story = <<>> /\ result = NoResult
    /\ route = "none" /\ school_ids = <<>> /\ response = NoResponse
    /\ request = NoRequest
    /\ calls = [th \in Threads |-> NoCall]
    /\ files = [p \in Paths |-> EmptyFile]
    /\ utcnow = 0
    /\ users = {} /\ students = {} /\ invitations = {} /\ submissions = {}
    /\ reqs = [th \in Threads |-> NoReq]
    /\ script = NoScript
    /\ uploads = {}

\* the renderers called on their own: the database is not read
Init ==
    /\ InitIdle
    /\ status = [s \in SchoolIDs |-> "pending"]
    /\ has_student = SchoolIDs
    /\ pdf_file = [s \in SchoolIDs |-> "none"]

\* the web application over any database; no PDF has been generated yet
InitWeb ==
    /\ InitIdle
    /\ status \in [SchoolIDs -> Statuses]
    /\ has_student \in SUBSET SchoolIDs
    /\ pdf_file = [s \in SchoolIDs |-> "none"]

Next ==
    \/ CallBulk
    \/ BuildCard
    \/ EndBuildCards
    \/ PlacePair
    \/ CheckBreak
    \/ EndTile
    \/ BulkDocBuild
    \/ GenerateIdPdf
    \/ GeneratePvcIdPdf
    \/ Return

Spec == Init /\ [][Next]_vars

\* the web application: the route, the bulk renderer it calls, and
\* generate_id_pdf called on its own
NextWeb ==
    \/ PrintBegin
    \/ BuildCard
    \/ EndBuildCards
    \/ PlacePair
    \/ CheckBreak
    \/ EndTile
    \/ BulkDocBuild
    \/ PrintFinish
    \/ ApproveSubmission
    \/ RejectSubmission
    \/ MarkPrintedSubmission
    \/ ReviewSubmission
    \/ DownloadIdPdf
    \/ RouteReturn
    \/ GenerateIdPdfSample
    \/ Return

SpecWeb == InitWeb /\ [][NextWeb]_vars


\* the student's download over any database and any state of the PDF files
InitStudent ==
    /\ InitIdle
    /\ status \in [SchoolIDs -> Statuses]
    /\ has_student \in SUBSET SchoolIDs
    /\ pdf_file \in [SchoolIDs -> PdfFileStates]

NextStudent ==
    \/ DownloadIdPdf
    \/ RouteReturn

SpecStudent == InitStudent /\ [][NextStudent]_vars

\* the bulk renderer on its own, run to the end once called
BulkStep ==
    \/ BuildCard
    \/ EndBuildCards
    \/ PlacePair
    \/ CheckBreak
    \/ EndTile
    \/ BulkDocBuild

NextBulk ==
    \/ CallBulkList
    \/ BulkStep
    \/ Return

\* a Python call that has started keeps running: weak fairness of its steps
SpecBulk == Init /\ [][NextBulk]_vars /\ WF_vars(BulkStep)

\* ------------------------------------------------ reading a document
CeilDiv(n, k) == (n + k - 1) \div k

InBulk == fn = "generate_bulk_print_pdf"
BulkDone == InBulk /\ pc = "done"

\* the ids of the records of a list that can be rendered, in list order
RECURSIVE RenderableIds(_)
RenderableIds(recs) ==
    IF recs = <<>> THEN <<>>
    ELSE (IF Head(recs).kind = "dict" THEN <<Head(recs).id>> ELSE <<>>)
         \o RenderableIds(Tail(recs))

\* the ids of the cards of a story, read cell by cell, row by row
RECURSIVE CardIds(_)
CardIds(s) ==
    IF s = <<>> THEN <<>>
    ELSE (IF Head(s).kind = "Pair"
          THEN <<Head(s).left.sid>>
               \o (IF Head(s).right = NoCard THEN <<>> ELSE <<Head(s).right.sid>>)
          ELSE <<>>)
         \o CardIds(Tail(s))

\* the number of card rows in each page group of a story: a group is what
\* lies between two page breaks (or an end of the story)
RECURSIVE GroupRows(_, _)
GroupRows(s, cur) ==
    IF s = <<>> THEN <<cur>>
    ELSE IF Head(s).kind = "PageBreak" THEN <<cur>> \o GroupRows(Tail(s), 0)
    ELSE GroupRows(Tail(s), IF Head(s).kind = "Pair" THEN cur + 1 ELSE cur)

\* the page groups that hold cards
CardPages(s) == SelectSeq(GroupRows(s, 0), LAMBDA r : r > 0)

\* the rows placed since the last page break
RowsSinceBreak(s) == GroupRows(s, 0)[Len(GroupRows(s, 0))]

\* ------------------------------------------------------------------ claims

C2_RowCountNeverExceedsCapacity ==
    (InBulk /\ pc \in {"tile", "check_break", "doc_build", "done"}) =>
        /\ row_count <= rows_per_page
        /\ pc = "tile" => row_count < rows_per_page
        /\ row_count = RowsSinceBreak(story)
        /\ \A g \in 1..Len(GroupRows(story, 0)) : GroupRows(story, 0)[g] <= rows_per_page

\* C2 witness: a full page was closed, the counter is back at zero and a
\* further row is about to be placed.
C2_NewPageStarted ==
    /\ InBulk /\ pc = "tile"
    /\ i <= Len(cards)
    /\ row_count = 0
    /\ story[Len(story)] = PageBreak

\* C3: the per-page capacity is at least 1 and every call of the bulk
\* renderer reaches its end with every renderable card placed.
C3_BulkTerminatesWithAllCardsPlaced ==
    /\ [](rows_per_page >= 1)
    /\ [](InBulk => <>(BulkDone /\ Len(CardIds(story)) = Len(RenderableIds(id_records))))

\* C3 witness: a call on a list of MaxRecords records, some of them not
\* renderable, has ended with every renderable card in the story.
C3_LongCallEnded ==
    /\ BulkDone
    /\ Len(id_records) >= 9
    /\ Len(RenderableIds(id_records)) < Len(id_records)
    /\ Len(CardIds(story)) = Len(RenderableIds(id_records))

\* C4: a record that cannot be rendered is skipped and every other record of
\* the list is in the returned document; only a failed build, never a bad
\* record, makes the function return None.
C4_BadRecordsSkippedOthersRendered ==
    /\ (InBulk /\ pc = "build_cards") => Len(cards) + (Len(id_records) - idx + 1) >=
                                         Len(RenderableIds(id_records))
    /\ BulkDone =>
        /\ built = "ok" =>
             /\ result.kind = "BytesIO"
             /\ {CardIds(result.story)[k] : k \in 1..Len(CardIds(result.story))}
                  = {id_records[k].id : k \in {j \in 1..Len(id_records) : id_records[j].kind = "dict"}}
        /\ result.kind = "None" => built = "failed"

\* C4 witness: a list holding a None and a record with broken markup among
\* good records was rendered and a document came back.
C4_BatchWithBadRecordsReturned ==
    /\ BulkDone
    /\ result.kind = "BytesIO"
    /\ \E a, b \in 1..Len(id_records) :
         id_records[a].kind = "none" /\ id_records[b].kind = "badmarkup"
    /\ Len(CardIds(result.story)) >= 2

\* C5: the cards of the bulk document, read cell by cell and row by row,
\* are the renderable records of id_records in their input order.
C5_BulkKeepsInputOrder ==
    (BulkDone /\ result.kind = "BytesIO") =>
        CardIds(result.story) = RenderableIds(id_records)

\* C5 witness: a list in descending id order with a skipped record in the
\* middle came out in that same order.
C5_DescendingListRendered ==
    /\ BulkDone /\ result.kind = "BytesIO"
    /\ Len(id_records) >= 4
    /\ id_records[1].id > id_records[2].id
    /\ id_records[2].kind # "dict"
    /\ CardIds(result.story) = RenderableIds(id_records)


\* ---------------------------------------------- reading a single card
InIdPdf == fn = "generate_id_pdf" /\ pc = "done"
InPvc == fn = "generate_pvc_id_pdf" /\ pc = "done"
IsDocument(r) == r.kind \in {"BytesIO", "filename"}

\* how many flowables of a story show the given face
RECURSIVE FaceCount(_, _)
FaceCount(s, face) ==
    IF s = <<>> THEN 0
    ELSE (IF Head(s).face = face THEN 1 ELSE 0) + FaceCount(Tail(s), face)

\* the name paragraph of the first front face of a generate_id_pdf story
StoryName(s) == s[1].rows[3][3][1][2]

\* the name string drawn on the front page of a PVC card
PageName(pg) ==
    pg[CHOOSE k \in 1..Len(pg) : Len(pg[k]) = 3 /\ pg[k][2] = "name"][3]

IsPrefixOf(a, b) == Len(a) <= Len(b) /\ a = SubSeq(b, 1, Len(a))

\* the photo, QR and logo paths are each None or the path of no file
AssetsAbsent(st, cfg) ==
    /\ st.photo \in {"none", "missing"}
    /\ st.qr \in {"none", "missing"}
    /\ cfg.logo_path \in {"none", "missing"}

\* C6: the document of generate_id_pdf shows the front face exactly once
\* and the back face exactly once.
C6_OneFrontOneBack ==
    (InIdPdf /\ IsDocument(result)) =>
        /\ FaceCount(result.story, "front") = 1
        /\ FaceCount(result.story, "back") = 1

\* C7: whatever optional text fields are None or empty, each of the three
\* renderers returns a document holding the student's card (a failed
\* doc.build aside, which no field causes).
C7_MissingOptionalFieldNeverFails ==
    /\ (InIdPdf /\ built # "failed") =>
          /\ IsDocument(result)
          /\ FaceCount(result.story, "front") >= 1
          /\ FaceCount(result.story, "back") >= 1
    /\ InPvc => IsDocument(result) /\ Len(pages) = 2
    /\ (BulkDone /\ built = "ok") =>
          /\ IsDocument(result)
          /\ CardIds(result.story) = RenderableIds(id_records)

\* C8: when the photo, the QR code and the logo are each None or a missing
\* file, rendering ends without error in a document that holds the text of
\* the card with a placeholder in each asset region.
C8_MissingAssetsDegradeGracefully ==
    /\ (InIdPdf /\ built # "failed" /\ AssetsAbsent(student_data, school_config)) =>
          /\ IsDocument(result)
          /\ result.story[1].rows[1] = <<"header", school_config.name>>
          /\ result.story[1].rows[3][2] = "[Photo]"
          /\ StoryName(result.story) = IdNameDrawn(student_data)
          /\ result.story[6].rows[Len(result.story[6].rows)][2] = "QR"
    /\ (InPvc /\ AssetsAbsent(student_data, school_config)) =>
          /\ IsDocument(result)
          /\ Len(pages) = 2
          /\ \E k \in 1..Len(pages[1]) : pages[1][k] = <<"drawCentredString", "Photo">>
          /\ \E k \in 1..Len(pages[2]) : pages[2][k] = <<"rect", "lightgrey">>

\* C9: a document is returned only by a build that succeeded; when
\* doc.build fails (or the body raises before it) the function returns None
\* and writes no file, and generate_print_pdf then answers with an error and
\* sends no PDF.
C9_FailedBuildReturnsNothing ==
    /\ (pc = "done" /\ fn \in {"generate_id_pdf", "generate_bulk_print_pdf"}) =>
          /\ built # "ok" => result = ReturnedNone /\ disk = "absent"
          /\ IsDocument(result) => built = "ok"
    /\ (route = "responded" /\ built = "failed") =>
          /\ response.code = 500
          /\ response # SentPdf
    /\ response = SentPdf => built = "ok" /\ result.kind = "BytesIO"

\* C9 witness: the build of a bulk PDF requested through the route failed
\* and the route answered.
C9_RouteAnsweredAfterFailedBuild ==
    /\ route = "responded"
    /\ fn = "generate_bulk_print_pdf"
    /\ built = "failed"
    /\ result = ReturnedNone
    /\ response = Answer(500, "PDF buffer is empty")

\* C10: a full name of more than 17 characters is drawn on the front face
\* as a prefix of at most 17 characters of the uppercased name.
C10_NameTruncatedTo17 ==
    /\ (InIdPdf /\ IsDocument(result) /\ Len(student_data.full_name) > 17) =>
          /\ Len(StoryName(result.story)) <= 17
          /\ IsPrefixOf(StoryName(result.story), Upper(student_data.full_name))
    /\ (InPvc /\ Len(student_data.full_name) > 17) =>
          /\ Len(PageName(pages[1])) <= 17
          /\ IsPrefixOf(PageName(pages[1]), Upper(student_data.full_name))

\* ------------------------------------------- the layout of a single card
\* lengths are in hundredths of a point: an inch is 7200, the leading of a
\* one-line Paragraph of the sample stylesheet is 1200 (2200 under Heading1),
\* the default padding of a table cell is 300 above and 300 below
Max(a, b) == IF a >= b THEN a ELSE b

\* the height of front_table: the header row (padding 3 + 3), the Spacer row
\* of 0.04 inch (padding 1 + 1) and the row of front_main, which is as high
\* as the higher of the photo cell and the column of details
IdFrontHeight(t) ==
    LET header == t.rows[1]
        main == t.rows[3]
    IN  (IF Len(header) = 3 THEN Max(4320, 2200) ELSE 2200) + 600
        + 288 + 200
        + Max(IF main[2] = "Image" THEN 8640 ELSE 1200, Len(main[3]) * 1800) + 600 + 200

\* the height of back_table: the header row, three Spacer rows (0.02, 0.04
\* and 0.02 inch), one row for each one-line paragraph and the row of
\* back_main, as high as the higher of the QR cell and the right column
IdBackHeight(t) ==
    LET main == t.rows[Len(t.rows)]
    IN  2200 + 600
        + (144 + 200) + (288 + 200) + (144 + 200)
        + (Len(t.rows) - 5) * (1200 + 200)
        + Max(IF main[2] = "Image" THEN 7200 ELSE 1200, Len(main[3]) * 1800) + 600 + 200

\* the height a flowable takes in the frame; a table centred in a one-cell
\* table gains that cell's padding
FlowHeight(f) ==
    IF f.kind = "Spacer" THEN f.rows[1] * 72
    ELSE IF f.kind = "PageBreak" THEN 0
    ELSE (IF f.face = "front" THEN IdFrontHeight(f) ELSE IdBackHeight(f))
         + (IF f.kind = "Centered" THEN 600 ELSE 0)

\* the distance from the top of the frame to the top of the k-th flowable
RECURSIVE TopOf(_, _)
TopOf(s, k) == IF k <= 1 THEN 0 ELSE TopOf(s, k - 1) + FlowHeight(s[k - 1])

\* the faces of a story in order, each with its place and its height
Layout(s) == [k \in 1..Len(s) |-> <<s[k].kind, s[k].face, TopOf(s, k), FlowHeight(s[k])>>]

\* the pages of a story: one more than its page breaks
PageCount(s) == 1 + Cardinality({k \in 1..Len(s) : s[k].kind = "PageBreak"})

\* the height of the frame of generate_id_pdf: a letter page less the margins
IdFrameHeight == 11 * 7200 - 2 * 3600

\* C11: a second render of the same record and branding at any other reading
\* of the clock has the same number of pages and the same faces in the same
\* places as the document returned.
C11_LayoutIndependentOfClock ==
    (InIdPdf /\ IsDocument(result)) =>
        \A t \in 1..MaxClock :
            /\ Layout(IdStory(student_data, "ID1", school_config, t)) = Layout(result.story)
            /\ PageCount(IdStory(student_data, "ID1", school_config, t)) = PageCount(result.story)
            /\ PageCount(result.story) = 1
            /\ TopOf(result.story, Len(result.story) + 1) <= IdFrameHeight

\* C11 witness: a document whose front validity line was read from the clock,
\* so that its text differs from one render to the next.
C11_ClockTextRendered ==
    /\ InIdPdf /\ IsDocument(result)
    /\ ~Truthy(Get(student_data, "valid_until"))
    /\ \E t \in 1..MaxClock :
         IdStory(student_data, "ID1", school_config, t) # result.story

\* the date of the "Valid Until" line of the front face
FrontValidity(s) ==
    LET details == s[1].rows[3][3] IN details[Len(details)][2]

\* the date of the "Valid Until" row of the back face
BackValidity(s) ==
    LET rows == s[Len(s)].rows IN rows[Len(rows) - 1][2]

\* C12: when the record supplies a valid_until, the validity date of the
\* front face and the validity date of the back face are both that value.
C12_SuppliedValidityOnBothFaces ==
    (InIdPdf /\ IsDocument(result) /\ Truthy(Get(student_data, "valid_until"))) =>
        /\ FrontValidity(result.story) = Get(student_data, "valid_until")
        /\ BackValidity(result.story) = Get(student_data, "valid_until")

\* the height of Spacer(1, 0.3*inch), the spacer between the two centred faces
CuttingGap == 30 * 72

\* the distance from the bottom edge of the a-th flowable to the top edge of
\* the b-th
GapBetween(s, a, b) == TopOf(s, b) - (TopOf(s, a) + FlowHeight(s[a]))

\* C13: in every document of generate_id_pdf each front face ends exactly
\* one cutting gap above the back face, whatever the fields of the student.
C13_FixedGapBetweenFaces ==
    (InIdPdf /\ IsDocument(result)) =>
        \A a, b \in 1..Len(result.story) :
            (result.story[a].face = "front" /\ result.story[b].face = "back") =>
                GapBetween(result.story, a, b) = CuttingGap

\* ------------------------------------------------------ the web routes
\* a request of download_id_pdf has just been answered
DownloadAnswered ==
    route = "responded" /\ request.endpoint = "download_id_pdf"

\* C14: a download of an approved or printed SchoolID by the student it belongs
\* to is answered with the attachment ID_<id_number>.pdf, also when no PDF
\* file exists yet.
C14_ApprovedOwnerGetsAttachment ==
    (/\ DownloadAnswered
     /\ request.user.is_authenticated /\ request.user.role = "student"
     /\ request.id_id \in SchoolIDs \cap has_student
     /\ OwnerId(request.id_id) = request.user.id
     /\ status[request.id_id] \in {"approved", "printed"}) =>
        response = SentFile(request.id_id)

\* C15: a download of a SchoolID that is not the logged-in student's, or whose
\* status is neither approved nor printed, sends nothing, stores no PDF path,
\* changes no status and, for a logged-in student and an existing SchoolID,
\* is answered with the redirect to the dashboard.
C15_DownloadOnlyForApprovedOwner ==
    [][ (route = "none" /\ route' = "responded"
         /\ request'.endpoint = "download_id_pdf") =>
          LET user == request'.user
              id_id == request'.id_id
              found == id_id \in SchoolIDs \cap has_student
              student == user.is_authenticated /\ user.role = "student"
              allowed == /\ found /\ student
                         /\ OwnerId(id_id) = user.id
                         /\ status[id_id] \in {"approved", "printed"}
          IN  /\ ~allowed => /\ response'.code # 200
                             /\ status' = status
                             /\ pdf_file' = pdf_file
                             /\ has_student' = has_student
              /\ (found /\ student /\ ~allowed) =>
                     response' = Redirect("student.dashboard") ]_vars

\* a student asked for the approved SchoolID of another student, whose PDF
\* file exists, and was sent back to the dashboard
C15_OthersApprovedIdRefused ==
    /\ DownloadAnswered
    /\ request.user.role = "student"
    /\ request.id_id \in SchoolIDs \cap has_student
    /\ OwnerId(request.id_id) # request.user.id
    /\ status[request.id_id] = "approved"
    /\ pdf_file[request.id_id] = "exists"
    /\ response = Redirect("student.dashboard")

\* C16: a SchoolID gets the status 'printed' only from the status 'approved',
\* and generate_print_pdf renders only SchoolIDs whose status is 'approved'.
C16_OnlyApprovedPrinted ==
    [][ /\ \A s \in SchoolIDs :
             (status'[s] = "printed" /\ status[s] # "printed") => status[s] = "approved"
        /\ route' = "generate_print_pdf" =>
             \A k \in 1..Len(school_ids') : status'[school_ids'[k]] = "approved" ]_vars

\* the role the decorator of an endpoint asks for: student_required on
\* download_id_pdf, admin_required on the admin routes
RequiredRole(endpoint) ==
    IF endpoint = "download_id_pdf" THEN "student" ELSE "admin"

\* C17: a request of a user who is not logged in is answered with the redirect
\* to the login page, a request of a logged-in user without the role of the
\* route with 403, in both cases without a change to a record and without a
\* render being started; records change only in requests of a logged-in user
\* who has the role of the route.
C17_RoleEnforced ==
    [][ LET user == request'.user
            role == RequiredRole(request'.endpoint)
            permitted == user.is_authenticated /\ user.role = role
        IN  /\ (route = "none" /\ request' # NoRequest /\ ~permitted) =>
                  /\ route' = "responded"
                  /\ response' = IF user.is_authenticated
                                 THEN Forbidden ELSE Redirect("auth.login")
                  /\ UNCHANGED <<status, has_student, pdf_file, fn, pc, result>>
            /\ <<status, has_student, pdf_file>>' # <<status, has_student, pdf_file>> =>
                  permitted ]_vars

\* a logged-in student asked for an admin route and got 403
C17_StudentRefusedOnAdminRoute ==
    /\ route = "responded"
    /\ request.endpoint \in {"approve_submission", "mark_printed", "generate_print_pdf"}
    /\ request.user.is_authenticated /\ request.user.role = "student"
    /\ response = Forbidden

\* -------------------------------------------------- renders side by side
\* what doc.build / c.save of a call writes: the story of generate_id_pdf, the
\* pages of generate_pvc_id_pdf, the story of generate_bulk_print_pdf for the
\* list of one record
ParDocument(f, args) ==
    IF f = "generate_id_pdf" THEN IdStory(args.student, "ID1", DefaultConfig, args.t)
    ELSE IF f = "generate_pvc_id_pdf" THEN PvcPages(args.student, DefaultConfig)
    ELSE <<BulkTitle(DefaultConfig), Spacer,
           PairRow(<<BulkCard(args.student, DefaultConfig)>>, 1), Spacer>>

\* a thread enters a renderer: `buffer = BytesIO()` is a local of the call.
\* generate_bulk_print_pdf takes no filename; the calls read the same day
\* off the clock.
ParCall(th) ==
    /\ calls[th].pc = "idle"
    /\ \E f \in {"generate_id_pdf", "generate_pvc_id_pdf", "generate_bulk_print_pdf"},
          name \in {ShortName, JaneName},
          path \in {"none"} \cup Paths :
         /\ f = "generate_bulk_print_pdf" => path = "none"
         /\ LET args == [student |-> [FullStudent(1) EXCEPT !.full_name = name],
                         filename |-> path, t |-> 1]
                busy == { o \in Threads \ {th} : calls[o].pc # "idle" }
                same == { o \in busy : path # "none" /\ calls[o].args.filename = path }
            IN  calls' = [o \in Threads |->
                            IF o = th
                            THEN [NoCall EXCEPT !.fn = f, !.pc = "called", !.args = args,
                                                !.overlapped = busy # {},
                                                !.shared = same # {}]
                            ELSE [calls[o] EXCEPT !.overlapped = @ \/ o \in busy,
                                                  !.shared = @ \/ o \in same]]
    /\ UNCHANGED <<files, render_vars, db_vars, web_vars, acct_vars>>

\* faulty variant of ParBuild: one module-level buffer serves every call
ParBuild_SharedBuffer(th) ==
    /\ calls[th].pc = "called"
    /\ calls' = [o \in Threads |->
                    IF o = th \/ calls[o].pc \in {"called", "built", "opened"}
                    THEN [calls[o] EXCEPT !.drawn = calls[th].fn,
                                          !.buffer = ParDocument(calls[th].fn, calls[th].args),
                                          !.pc = IF o = th THEN "built" ELSE @]
                    ELSE calls[o]]
    /\ UNCHANGED <<files, render_vars, db_vars, web_vars, acct_vars>>

\* doc.build(story) / c.showPage() and c.save(): the call draws into its own
\* buffer
ParBuild(th) ==
    /\ calls[th].pc = "called"
    /\ calls' = [calls EXCEPT ![th].drawn = calls[th].fn,
                              ![th].buffer = ParDocument(calls[th].fn, calls[th].args),
                              ![th].pc = "built"]
    /\ UNCHANGED <<files, render_vars, db_vars, web_vars, acct_vars>>

\* `with open(filename, 'wb') as f`: the file is truncated
ParOpen(th) ==
    /\ calls[th].pc = "built" /\ calls[th].args.filename # "none"
    /\ files' = [files EXCEPT ![calls[th].args.filename] = EmptyFile]
    /\ calls' = [calls EXCEPT ![th].pc = "opened"]
    /\ UNCHANGED <<render_vars, db_vars, web_vars, acct_vars>>

\* the end of the call.  Without a filename: buffer.seek(0); return buffer.
\* With one: f.write(buffer.getvalue()) from offset 0 of this call's handle,
\* close, return filename; bytes another call wrote to the same file since
\* this call opened it are overwritten only as far as this document reaches,
\* so the file is this document, or is torn when the other one was longer.
ParFinish(th) ==
    LET call == calls[th]
        path == call.args.filename
    IN  IF path = "none"
        THEN /\ call.pc = "built"
             /\ calls' = [calls EXCEPT ![th].result = Buffer(call.buffer), ![th].pc = "done"]
             /\ UNCHANGED files
             /\ UNCHANGED <<render_vars, db_vars, web_vars, acct_vars>>
        ELSE /\ call.pc = "opened"
             /\ \E torn \in (IF files[path].fn = "-"
                                \/ (files[path].fn = call.fn /\ files[path].args = call.args)
                             THEN {FALSE} ELSE BOOLEAN) :
                  LET written == IF torn THEN <<>> ELSE call.buffer
                  IN  /\ files' = [files EXCEPT ![path] =
                                      [fn |-> call.fn, args |-> call.args, story |-> written]]
                      /\ calls' = [calls EXCEPT ![th].result = SavedFile(written),
                                                ![th].pc = "done"]
             /\ UNCHANGED <<render_vars, db_vars, web_vars, acct_vars>>

\* the caller takes the result; the locals of the call are dropped
ParReturn(th) ==
    /\ calls[th].pc = "done"
    /\ calls' = [calls EXCEPT ![th] = NoCall]
    /\ UNCHANGED <<files, render_vars, db_vars, web_vars, acct_vars>>

NextPar ==
    \E th \in Threads :
        \/ ParCall(th)
        \/ ParBuild(th)
        \/ ParOpen(th)
        \/ ParFinish(th)
        \/ ParReturn(th)

\* two worker threads of the web server, each in any of the renderers
SpecPar == Init /\ [][NextPar]_vars

\* what the call returns when it runs alone
ParAlone(call) ==
    IF call.args.filename = "none"
    THEN Buffer(ParDocument(call.fn, call.args))
    ELSE SavedFile(ParDocument(call.fn, call.args))

\* C18 as stated: whatever two render calls run side by side, the document a
\* call returns is the one it returns alone.
C18_AnyTwoCallsIndependent ==
    \A th \in Threads :
        calls[th].pc = "done" =>
            /\ calls[th].drawn = calls[th].fn
            /\ calls[th].result = ParAlone(calls[th])

\* C18: a call that shares its filename with no call running beside it returns
\* the document it returns alone, whatever the other thread does.
C18_CallsWithOwnFileIndependent ==
    \A th \in Threads :
        (calls[th].pc = "done" /\ ~calls[th].shared) =>
            /\ calls[th].drawn = calls[th].fn
            /\ calls[th].result = ParAlone(calls[th])

\* two calls that ran side by side on different students, one of them writing
\* a file, have both ended
C18_TwoOverlappedCallsEnded ==
    /\ \A th \in Threads : calls[th].pc = "done" /\ calls[th].overlapped /\ ~calls[th].shared
    /\ calls[1].args.student # calls[2].args.student
    /\ calls[1].args.filename # "none"
    /\ calls[1].fn # calls[2].fn

\* ------------------------------------------------ the draw order of a face
\* a draw of the text column: the drawString calls right of the photo or of
\* the QR code and the address text; the validity line, the divider, the
\* website, the usage note and the signature strip lie at the bottom
IsTextDraw(op) ==
    /\ op[1] \in {"drawString", "drawText"}
    /\ op[2] # "Property of the school"

\* the elements of a face with the draws of each, in the order the code
\* issues them: face 1 is the front, face 2 the back
PvcFaceElements(face, st, cfg) ==
    IF face = 1
    THEN <<<<"background", PvcBackground>>,
           <<"header", PvcLogo(cfg)>>,
           <<"photo", PvcPhoto(st.photo)>>,
           <<"text", SelectSeq(PvcFrontText(st, cfg), IsTextDraw)>>,
           <<"bottom", SelectSeq(PvcFrontText(st, cfg), LAMBDA op : ~IsTextDraw(op))>>>>
    ELSE <<<<"background", PvcBackground>>,
           <<"qr", PvcQr(st.qr)>>,
           <<"text", SelectSeq(PvcBackText(st, cfg), IsTextDraw)>>,
           <<"bottom", SelectSeq(PvcBackText(st, cfg), LAMBDA op : ~IsTextDraw(op))>>>>

\* the draws of a sequence of elements, one element after the other
RECURSIVE ElementDraws(_)
ElementDraws(es) ==
    IF es = <<>> THEN <<>> ELSE Head(es)[2] \o ElementDraws(Tail(es))

\* the place of an element in the draw order of section 4.1
DrawRank(label) ==
    CHOOSE k \in 1..6 :
        <<"background", "header", "photo", "text", "bottom", "qr">>[k] = label

\* the page of a face is drawn element by element
DrawnByElement(face) ==
    pages[face] = ElementDraws(PvcFaceElements(face, student_data, school_config))

OpsAt(op) == { k \in 1..Len(canvas_ops) : canvas_ops[k] = op }

\* C20: generate_pvc_id_pdf draws two pages, the front and then the back, for
\* every record and every state of the logo, the photo and the QR code; it
\* saves the canvas once, after both showPage calls, and returns the filename
\* it was given or else the buffer rewound to offset 0.
C20_TwoPagesSavedOnce ==
    InPvc =>
        /\ Len(pages) = 2
        /\ \E k \in 1..Len(pages[1]) : pages[1][k][2] = "name"
        /\ \E k \in 1..Len(pages[2]) : pages[2][k][2] = "Emergency Contact:"
        /\ \A k \in 1..Len(pages[1]) : pages[1][k][2] # "Emergency Contact:"
        /\ Cardinality(OpsAt("showPage")) = 2
        /\ Cardinality(OpsAt("save")) = 1
        /\ \A a \in OpsAt("showPage"), b \in OpsAt("save") : a < b
        /\ \A a \in OpsAt("save") : \E b \in OpsAt("seek(0)") : a < b
        /\ IF filename # "none"
           THEN result.kind = "filename" /\ disk = "complete"
           ELSE result.kind = "BytesIO" /\ result.pos = 0 /\ disk = "absent"

\* ------------------------------------------- printing through the route
\* the ids of the students whose card is in the document a call returned
PrintedCards(r) ==
    IF r.kind = "BytesIO"
    THEN { CardIds(r.story)[k] : k \in 1..Len(CardIds(r.story)) }
    ELSE {}

PairRows(s) == SelectSeq(s, LAMBDA f : f.kind = "Pair")

\* C29: the c cards built stand in ceil(c / 2) rows, the k-th row holding the
\* cards 2k-1 and 2k; every card is in one cell, and only the last row can
\* hold a single card, in its left cell.
C29_TwoUpTiling ==
    BulkDone =>
        LET rows == PairRows(story)
            c == Len(cards)
        IN  /\ Len(rows) = CeilDiv(c, 2)
            /\ \A k \in 1..Len(rows) :
                 /\ rows[k].left = cards[2 * k - 1]
                 /\ rows[k].left # NoCard
                 /\ rows[k].right = IF 2 * k <= c THEN cards[2 * k] ELSE NoCard
                 /\ k < Len(rows) => rows[k].right # NoCard
            /\ CardIds(story) = [k \in 1..c |-> cards[k].sid]
            /\ \A a, b \in 1..c : a # b => cards[a].sid # cards[b].sid

\* C29 witness: an odd number of cards, at least three, has been tiled and
\* the last row holds one card on the left
C29_OddNumberOfCardsTiled ==
    /\ BulkDone
    /\ Len(cards) >= 3 /\ Len(cards) % 2 = 1
    /\ PairRows(story)[Len(PairRows(story))].right = NoCard
    /\ PairRows(story)[Len(PairRows(story))].left = cards[Len(cards)]

\* C30: every page break of the bulk story is followed by a further row of
\* cards, so the story does not end with a page break.
C30_NoPageBreakWithoutFollowingRow ==
    BulkDone =>
        \A k \in 1..Len(story) :
            story[k] = PageBreak =>
                \E j \in (k + 1)..Len(story) : story[j].kind = "Pair"

\* ------------------------------------------------------ card geometry
\* reportlab.lib.units, in hundredths of a millimetre
mm == 100
inch == 2540

\* id_card_generator: CARD_W_MM * mm, CARD_H_MM * mm
CARD_W_PT == (856 * mm) \div 10
CARD_H_PT == 54 * mm

\* generate_id_pdf: id_width = 3.5 * inch, id_height = 2.2 * inch
id_width == (35 * inch) \div 10
id_height == (22 * inch) \div 10

\* generate_bulk_print_pdf: id_card_width = 3.2 * inch, the sum of the
\* colWidths of a record table; the height of a card follows its content
id_card_width == (32 * inch) \div 10

\* the page and the margins of a renderer: the letter page of
\* generate_id_pdf, A4 for generate_bulk_print_pdf, both with 0.5 inch on
\* every side; the card with its bleed and no margin for generate_pvc_id_pdf
PageSize(f) ==
    IF f = "generate_id_pdf" THEN <<(85 * inch) \div 10, 11 * inch>>
    ELSE IF f = "generate_bulk_print_pdf" THEN <<210 * mm, 297 * mm>>
    ELSE <<CARD_W_PT + 2 * 3 * mm, CARD_H_PT + 2 * 3 * mm>>

PageMargin(f) ==
    IF f = "generate_pvc_id_pdf" THEN 0 ELSE (5 * inch) \div 10

\* the width of a card face a renderer draws
CardWidth(f) ==
    IF f = "generate_id_pdf" THEN id_width
    ELSE IF f = "generate_bulk_print_pdf" THEN id_card_width
    ELSE CARD_W_PT

\* the height of a card face of the renderers that fix one
CardHeight(f) ==
    IF f = "generate_id_pdf" THEN id_height ELSE CARD_H_PT

\* C21: whichever renderer runs, a card face is 85.6mm wide and 53.98mm high;
\* the bulk renderer lays out on an A4 portrait page with 15mm margins.
C21_IsoCardSizeAndA4Margins ==
    fn # "idle" =>
        /\ CardWidth(fn) = (856 * mm) \div 10
        /\ fn # "generate_bulk_print_pdf" => CardHeight(fn) = (5398 * mm) \div 100
        /\ fn = "generate_bulk_print_pdf" =>
               /\ PageSize(fn) = <<210 * mm, 297 * mm>>
               /\ PageMargin(fn) = 15 * mm

\* ------------------------------------------------- student.submit_id
\* the students whose submissions are followed
StudentIds == 1..2

\* the primary key the database gives a new row of a table
NewId(rows) ==
    IF rows = {} THEN 1
    ELSE 1 + (CHOOSE m \in {r.id : r \in rows} : \A r \in rows : r.id <= m)

\* f"SID{student.reg_no}{timestamp}" with the timestamp of utcnow()
IdNumber(student_id, t) == <<student_id, t>>

\* the pending SchoolID rows of a student
PendingOf(student_id) ==
    { r \in submissions : r.student_id = student_id /\ r.status = "pending" }

\* the clock moves on
Tick ==
    /\ utcnow < MaxTime
    /\ utcnow' = utcnow + 1
    /\ UNCHANGED <<users, students, invitations, submissions, reqs, script, uploads>>
    /\ UNCHANGED <<render_vars, db_vars, web_vars, par_vars>>

\* submit_id, a valid POST of a logged-in student with a profile, up to the
\* query for a pending submission: refused when there is one
SubmitCheck(th) ==
    /\ reqs[th].op = "idle"
    /\ \E st \in StudentIds :
         reqs' = [reqs EXCEPT ![th] =
                    IF PendingOf(st) # {}
                    THEN [NoReq EXCEPT !.student = st, !.last = "already pending"]
                    ELSE [NoReq EXCEPT !.op = "submit_id", !.pc = "checked", !.student = st]]
    /\ UNCHANGED <<utcnow, users, students, invitations, submissions, script, uploads>>
    /\ UNCHANGED <<render_vars, db_vars, web_vars, par_vars>>

\* submit_id from the id_number to the commit: the QR code file is written,
\* the row is added with status 'pending'; a second row with the same
\* id_number violates the unique column, the except rolls back
SubmitCommit(th) ==
    /\ reqs[th].op = "submit_id" /\ reqs[th].pc = "checked"
    /\ Cardinality(submissions) < MaxRows
    /\ LET st == reqs[th].student
           id_number == IdNumber(st, utcnow)
       IN  IF \E r \in submissions : r.id_number = id_number
           THEN /\ reqs' = [reqs EXCEPT ![th] = [NoReq EXCEPT !.student = st, !.last = "error"]]
                /\ uploads' = uploads \cup {id_number}
                /\ UNCHANGED submissions
           ELSE /\ submissions' = submissions \cup
                     {[id |-> NewId(submissions), student_id |-> st, status |-> "pending",
                       id_number |-> id_number]}
                /\ uploads' = uploads \cup {id_number}
                /\ reqs' = [reqs EXCEPT ![th] = [NoReq EXCEPT !.student = st, !.last = "submitted"]]
    /\ UNCHANGED <<utcnow, users, students, invitations, script>>
    /\ UNCHANGED <<render_vars, db_vars, web_vars, par_vars>>

\* review_submission, approve_submission, reject_submission, mark_printed and
\* generate_print_pdf, by an administrator: a row gets the status they store
AdminSetsStatus ==
    /\ \E r \in submissions, new_status \in {"approved", "rejected", "printed"} :
         /\ r.status # new_status
         /\ submissions' = (submissions \ {r}) \cup {[r EXCEPT !.status = new_status]}
    /\ UNCHANGED <<utcnow, users, students, invitations, reqs, script, uploads>>
    /\ UNCHANGED <<render_vars, db_vars, web_vars, par_vars>>

NextSubmit ==
    \/ \E th \in Threads : SubmitCheck(th) \/ SubmitCommit(th)
    \/ AdminSetsStatus
    \/ Tick

\* the submissions of the students and their review, two requests at a time
SpecSubmit == Init /\ [][NextSubmit]_vars

\* C23: no student has two SchoolID rows with the status 'pending'.
C23_AtMostOnePending ==
    \A st \in StudentIds : Cardinality(PendingOf(st)) <= 1

\* ------------------------------------ delete_schoolids.backup_and_delete
\* the run starts: the backup file is opened and `SchoolID.query.all()` is
\* read; the web application keeps serving submit_id beside the script
ScriptStart ==
    /\ script.pc \in {"idle", "done", "crashed"}
    /\ script' = [NoScript EXCEPT !.pc = "backup", !.schoolids = submissions]
    /\ UNCHANGED <<utcnow, users, students, invitations, submissions, reqs, uploads>>
    /\ UNCHANGED <<render_vars, db_vars, web_vars, par_vars>>

\* faulty variant of ScriptWriteRow: a row that cannot be written is skipped
\* and the run goes on
ScriptWriteRow_SwallowsError ==
    /\ script.pc = "backup"
    /\ \E s \in script.schoolids, written \in BOOLEAN :
         /\ s.id \notin script.csv
         /\ script' = IF written THEN [script EXCEPT !.csv = @ \cup {s.id}]
                      ELSE [script EXCEPT !.pc = "delete_files", !.csv_closed = TRUE]
    /\ UNCHANGED <<utcnow, users, students, invitations, submissions, reqs, uploads>>
    /\ UNCHANGED <<render_vars, db_vars, web_vars, par_vars>>

\* writer.writerow for the next SchoolID of the list; an error of the write
\* leaves the with block and the function, and the run ends there
ScriptWriteRow ==
    /\ script.pc = "backup"
    /\ \E s \in script.schoolids, written \in BOOLEAN :
         /\ s.id \notin script.csv
         /\ script' = IF written THEN [script EXCEPT !.csv = @ \cup {s.id}]
                      ELSE [script EXCEPT !.pc = "crashed"]
    /\ UNCHANGED <<utcnow, users, students, invitations, submissions, reqs, uploads>>
    /\ UNCHANGED <<render_vars, db_vars, web_vars, par_vars>>

\* the loop over schoolids is over and the with block closes the CSV file
ScriptCloseCsv ==
    /\ script.pc = "backup"
    /\ \A s \in script.schoolids : s.id \in script.csv
    /\ script' = [script EXCEPT !.pc = "delete_files", !.csv_closed = TRUE]
    /\ UNCHANGED <<utcnow, users, students, invitations, submissions, reqs, uploads>>
    /\ UNCHANGED <<render_vars, db_vars, web_vars, par_vars>>

\* the files the SchoolIDs of the list refer to are removed
ScriptDeleteFiles ==
    /\ script.pc = "delete_files"
    /\ LET referenced == { s.id_number : s \in script.schoolids } \cap uploads
       IN  /\ uploads' = uploads \ referenced
           /\ script' = [script EXCEPT !.pc = "sweep", !.removed = referenced]
    /\ UNCHANGED <<utcnow, users, students, invitations, submissions, reqs>>
    /\ UNCHANGED <<render_vars, db_vars, web_vars, par_vars>>

\* every file left in uploads/pdfs, uploads/photos and uploads/qr_codes is
\* removed
ScriptSweep ==
    /\ script.pc = "sweep"
    /\ uploads' = {}
    /\ script' = [script EXCEPT !.pc = "delete_rows", !.removed = @ \cup uploads]
    /\ UNCHANGED <<utcnow, users, students, invitations, submissions, reqs>>
    /\ UNCHANGED <<render_vars, db_vars, web_vars, par_vars>>

\* `db.session.query(SchoolID).delete()` and commit when the list was not
\* empty: every row of the table goes, or the commit fails and is rolled back
ScriptDeleteRows ==
    /\ script.pc = "delete_rows"
    /\ \E commit_ok \in BOOLEAN :
         IF script.schoolids # {} /\ commit_ok
         THEN /\ submissions' = {}
              /\ script' = [script EXCEPT !.pc = "done", !.deleted = submissions]
         ELSE /\ script' = [script EXCEPT !.pc = "done"]
              /\ UNCHANGED submissions
    /\ UNCHANGED <<utcnow, users, students, invitations, reqs, uploads>>
    /\ UNCHANGED <<render_vars, db_vars, web_vars, par_vars>>

NextBackup ==
    \/ ScriptStart
    \/ ScriptWriteRow
    \/ ScriptCloseCsv
    \/ ScriptDeleteFiles
    \/ ScriptSweep
    \/ ScriptDeleteRows
    \/ SubmitCheck(1)
    \/ SubmitCommit(1)

\* the script beside the submissions the web application takes, one request
\* at a time and within one second of the clock
SpecBackup == Init /\ [][NextBackup]_vars

\* the CSV file holds a row for every SchoolID the run read and is closed
BackupComplete(sc) ==
    sc.csv_closed /\ sc.csv = { s.id : s \in sc.schoolids }

Usernames == {"amina", "brian", "chen"}
RegNos == {"", "amina", "R1"}
Emails == {"e1", "e2"}

\* timedelta(days=7) of expires_at, in ticks of the clock
InviteTicks == 1

\* AdminInvitation.is_valid at the time t
is_valid(inv, t) ==
    IF inv.is_used THEN FALSE
    ELSE IF t > inv.expires_at THEN FALSE
    ELSE TRUE

\* what a request that has ended reports
Ended(last) == [NoReq EXCEPT !.last = last]

\* register, a valid POST of an anonymous visitor, up to the query for the
\* username: 'Username already taken' when a User has it
RegisterCheck(th) ==
    /\ reqs[th].op = "idle"
    /\ \E username \in Usernames, reg_no \in RegNos :
         reqs' = [reqs EXCEPT ![th] =
                    IF \E u \in users : u.username = username
                    THEN Ended("register: Username already taken")
                    ELSE [NoReq EXCEPT !.op = "register", !.pc = "checked",
                                       !.username = username, !.reg_no = reg_no]]
    /\ UNCHANGED <<utcnow, users, students, invitations, submissions, script, uploads>>
    /\ UNCHANGED <<render_vars, db_vars, web_vars, par_vars>>

\* faulty variant of RegisterCommit: the User is committed on its own, before
\* the Student profile is added
RegisterCommit_UserCommitted(th) ==
    /\ reqs[th].op = "register" /\ reqs[th].pc = "checked"
    /\ LET username == reqs[th].username
           reg_no == IF reqs[th].reg_no # "" THEN reqs[th].reg_no ELSE username
           user == [id |-> NewId(users), username |-> username, role |-> "student", via |-> 0]
           student == [id |-> NewId(students), user_id |-> user.id, reg_no |-> reg_no]
       IN  IF \E u \in users : u.username = username
           THEN /\ reqs' = [reqs EXCEPT ![th] = Ended("register: IntegrityError")]
                /\ UNCHANGED <<users, students>>
           ELSE IF \E s \in students : s.reg_no = reg_no
           THEN /\ reqs' = [reqs EXCEPT ![th] = Ended("register: IntegrityError")]
                /\ users' = users \cup {user}
                /\ UNCHANGED students
           ELSE /\ users' = users \cup {user}
                /\ students' = students \cup {student}
                /\ reqs' = [reqs EXCEPT ![th] = Ended("register: Account created")]
    /\ UNCHANGED <<utcnow, invitations, submissions, script, uploads>>
    /\ UNCHANGED <<render_vars, db_vars, web_vars, par_vars>>

\* register from the User to the commit: the User is added and flushed, the
\* Student with reg_no (the username when the field is empty) is added, one
\* commit stores both; a unique column violated (username at the flush,
\* reg_no at the commit) raises and the transaction is rolled back
RegisterCommit(th) ==
    /\ reqs[th].op = "register" /\ reqs[th].pc = "checked"
    /\ LET username == reqs[th].username
           reg_no == IF reqs[th].reg_no # "" THEN reqs[th].reg_no ELSE username
           user == [id |-> NewId(users), username |-> username, role |-> "student", via |-> 0]
           student == [id |-> NewId(students), user_id |-> user.id, reg_no |-> reg_no]
       IN  IF \E u \in users : u.username = username
           THEN /\ reqs' = [reqs EXCEPT ![th] = Ended("register: IntegrityError")]
                /\ UNCHANGED <<users, students>>
           ELSE IF \E s \in students : s.reg_no = reg_no
           THEN /\ reqs' = [reqs EXCEPT ![th] = Ended("register: IntegrityError")]
                /\ UNCHANGED <<users, students>>
           ELSE /\ users' = users \cup {user}
                /\ students' = students \cup {student}
                /\ reqs' = [reqs EXCEPT ![th] = Ended("register: Account created")]
    /\ UNCHANGED <<utcnow, invitations, submissions, script, uploads>>
    /\ UNCHANGED <<render_vars, db_vars, web_vars, par_vars>>

\* the tokens a registration link may carry: those of the invitations and one
\* that no invitation has
Tokens == 0..MaxRows

\* register_admin, a valid POST of an anonymous visitor, up to the query for
\* the username: the invitation of the token is loaded and is_valid is asked
RegisterAdminCheck(th) ==
    /\ reqs[th].op = "idle"
    /\ \E token \in Tokens, username \in Usernames :
         LET found == { iv \in invitations : iv.token = token }
         IN  reqs' = [reqs EXCEPT ![th] =
                        IF found = {} \/ \E iv \in found : ~is_valid(iv, utcnow)
                        THEN Ended("register_admin: Invalid or expired invitation link")
                        ELSE IF \E u \in users : u.username = username
                        THEN Ended("register_admin: Username already taken")
                        ELSE [NoReq EXCEPT !.op = "register_admin", !.pc = "checked",
                                           !.username = username, !.token = token]]
    /\ UNCHANGED <<utcnow, users, students, invitations, submissions, script, uploads>>
    /\ UNCHANGED <<render_vars, db_vars, web_vars, par_vars>>

\* register_admin from the User to the commit: the User with role 'admin' is
\* added and flushed, mark_as_used stores is_used and used_by_id on the
\* invitation the request loaded, one commit stores both; `via` keeps the
\* token the account was made with
RegisterAdminCommit(th) ==
    /\ reqs[th].op = "register_admin" /\ reqs[th].pc = "checked"
    /\ LET username == reqs[th].username
           token == reqs[th].token
           user == [id |-> NewId(users), username |-> username, role |-> "admin", via |-> token]
       IN  IF \E u \in users : u.username = username
           THEN /\ reqs' = [reqs EXCEPT ![th] = Ended("register_admin: IntegrityError")]
                /\ UNCHANGED <<users, invitations>>
           ELSE /\ users' = users \cup {user}
                /\ invitations' =
                     { IF iv.token = token
                       THEN [iv EXCEPT !.is_used = TRUE, !.used_by_id = user.id]
                       ELSE iv : iv \in invitations }
                /\ reqs' = [reqs EXCEPT ![th] = Ended("register_admin: Admin account created")]
    /\ UNCHANGED <<utcnow, students, submissions, script, uploads>>
    /\ UNCHANGED <<render_vars, db_vars, web_vars, par_vars>>

\* invite_admin, a valid POST of a logged-in administrator: `existing` is
\* the row `.first()` gives of the unused invitations of the email, any of
\* them as the query has no ORDER BY; refused when it is valid, else an
\* invitation with a new token is stored
InviteAdmin ==
    /\ \E u \in users : u.role = "admin"
    /\ Cardinality(invitations) < MaxRows
    /\ \E email \in Emails :
         LET unused == { iv \in invitations : iv.email = email /\ ~iv.is_used }
         IN  \/ /\ \E existing \in unused : is_valid(existing, utcnow)
                /\ UNCHANGED invitations
             \/ /\ unused = {} \/ \E existing \in unused : ~is_valid(existing, utcnow)
                /\ invitations' = invitations \cup
                     {[id |-> NewId(invitations), token |-> NewId(invitations),
                       email |-> email, expires_at |-> utcnow + InviteTicks,
                       is_used |-> FALSE, used_by_id |-> 0]}
    /\ UNCHANGED <<utcnow, users, students, submissions, reqs, script, uploads>>
    /\ UNCHANGED <<render_vars, db_vars, web_vars, par_vars>>

\* `flask create-admin`: an admin account is stored unless the username is
\* taken
create_admin ==
    /\ \E username \in Usernames :
         /\ ~\E u \in users : u.username = username
         /\ users' = users \cup
              {[id |-> NewId(users), username |-> username, role |-> "admin", via |-> 0]}
    /\ UNCHANGED <<utcnow, students, invitations, submissions, reqs, script, uploads>>
    /\ UNCHANGED <<render_vars, db_vars, web_vars, par_vars>>

NextRegister ==
    \/ \E th \in Threads : RegisterCheck(th) \/ RegisterCommit(th)
    \/ create_admin

\* the registrations of students, two requests at a time, beside the
\* accounts made on the command line
SpecRegister == Init /\ [][NextRegister]_vars

NextInvite ==
    \/ \E th \in Threads : RegisterAdminCheck(th) \/ RegisterAdminCommit(th)
    \/ InviteAdmin
    \/ create_admin
    \/ Tick

\* the invitations of administrators and the registrations with their
\* tokens, two requests at a time
SpecInvite == Init /\ [][NextInvite]_vars

\* the registrations that have failed
RegisterFailed == {"register: Username already taken", "register: IntegrityError"}

\* C28: every User with role 'student' has exactly one Student profile, every
\* Student profile belongs to exactly one User with role 'student', and a
\* register request that fails (username taken, a unique column violated)
\* leaves the users and the profiles as they were.
C28_RegistrationAllOrNothing ==
    [][ /\ \A u \in users' : u.role = "student" =>
              Cardinality({ s \in students' : s.user_id = u.id }) = 1
        /\ \A s \in students' :
              Cardinality({ u \in users' : u.id = s.user_id /\ u.role = "student" }) = 1
        /\ \A th \in Threads :
              (reqs'[th] # reqs[th] /\ reqs'[th].last \in RegisterFailed)
                 => users' = users /\ students' = students ]_vars

\* C28 witness: one registration made an account with its profile and one
\* failed on the reg_no of that profile
C28_OneRegisteredOneCollided ==
    /\ Cardinality(users) = 1 /\ Cardinality(students) = 1
    /\ \E u \in users, s \in students :
         u.role = "student" /\ s.user_id = u.id /\ s.reg_no = "amina" /\ u.username = "brian"
    /\ \E th \in Threads : reqs[th].last = "register: IntegrityError"

\* C24: no two admin accounts were made with the same invitation token.
C24_OneAdminPerToken ==
    \A token \in { iv.token : iv \in invitations } :
        Cardinality({ u \in users : u.role = "admin" /\ u.via = token }) <= 1

\* C25: no email address has two invitations that are unused and unexpired.
C25_OneValidInvitationPerEmail ==
    \A email \in Emails :
        Cardinality({ iv \in invitations : iv.email = email /\ is_valid(iv, utcnow) }) <= 1

====
